---- MODULE Spec2Model ----
(***************************************************************************)
(* A model of ProductMappingProcessor (src/product_mapping_processor.py):  *)
(* the resolution of the columns of the two spreadsheets and the three     *)
(* phases of process_to_buffer (exact, reverse and fuzzy match).           *)
(*                                                                         *)
(* A string is a sequence of one-character strings, so that prefixes,      *)
(* lengths and edit distances are computed as the code computes them.      *)
(* A pandas missing value is NaN, Python's None is None.                   *)
(***************************************************************************)
EXTENDS Integers, Sequences, FiniteSets, Bags, TLC

VARIABLES
    pc,                       \* position in process_to_buffer
    mapping_df,               \* [columns, rows]: the mapping sheet, as loaded
    column_mapping,           \* logical column -> header, or None
    data_df,                  \* [columns, rows]: the data sheet
    code_mapping,             \* dict old_code -> new_code
    name_mapping,             \* dict old_code -> new_name
    reverse_code_mapping,     \* dict new_code -> old_code
    total_count,
    exact_matched_count,
    reverse_matched_count,
    fuzzy_matched_count,
    unmatched_indices,        \* rows the phase 2 loop iterates over
    still_unmatched_indices,  \* rows the phase 3 loop iterates over
    data_columns,             \* the header row of the data sheet, as read
    exact_hits,               \* rows phase 1 counted
    reverse_hits,             \* rows phase 2 counted
    fuzzy_hits,               \* rows phase 3 counted
    input_df,                 \* the data sheet as _load_data_file returned it
    output_buffer,            \* None, or the table written to the buffer
    result,                   \* None, or the statistics returned
    error,                    \* None, or the exception raised
    lev_str1,                 \* a call of _levenshtein_distance: its arguments
    lev_str2,
    lev_distance,             \* None, or the distance the call returned
    lev_similarity,           \* None, or the similarity line 271 computed
    find_columns,             \* a call of _find_column_by_pattern: df.columns
    find_patterns,            \* and patterns
    find_result,              \* None, or the header the call returned
    match_code,               \* a call of _find_closest_match: code
    match_df,                 \* and mapping_df
    match_result,             \* None, or [match, similarity] as returned
    kv_detail,                \* main.py: ctx state "detail" of each task key
    kv_status,                \* ctx state "status" of each task key
    in_flight,                \* task key -> what the handler that is at an await holds
    non_existing_codes,       \* the module-level list
    email_scheduler_active,   \* the module-level flag
    first_submit_time,        \* None, or the time of the submit that set the flag
    invocations,              \* bag of the invocations sent and not yet run
    emailed,                  \* the codes of the emails sent
    calls,                    \* number of calls made from outside
    orders,                   \* main-sqlite.py: task id -> its row of table orders
    code_rows,                \* main-sqlite.py: product codes of table non_existing_codes
    daily_task_stats          \* main-sqlite.py: [completed_tasks, failed_tasks] of today

vars == <<pc, mapping_df, column_mapping, data_df, code_mapping, name_mapping,
          reverse_code_mapping, total_count, exact_matched_count,
          reverse_matched_count, fuzzy_matched_count, unmatched_indices,
          still_unmatched_indices, data_columns, exact_hits, reverse_hits,
          fuzzy_hits, input_df, output_buffer, result, error,
          lev_str1, lev_str2, lev_distance, lev_similarity,
          find_columns, find_patterns, find_result,
          match_code, match_df, match_result,
          kv_detail, kv_status, in_flight, non_existing_codes, email_scheduler_active,
          first_submit_time, invocations, emailed, calls,
          orders, code_rows, daily_task_stats>>

\* the variables of a call of _levenshtein_distance on its own
call_vars == <<lev_str1, lev_str2, lev_distance, lev_similarity>>

\* the variables of a call of _find_column_by_pattern on its own
find_vars == <<find_columns, find_patterns, find_result>>

\* the variables of a call of _find_closest_match on its own
match_vars == <<match_code, match_df, match_result>>

\* the variables of the handlers of main.py
service_vars == <<kv_detail, kv_status, in_flight, non_existing_codes,
                  email_scheduler_active,
                  first_submit_time, invocations, emailed, calls>>

sqlite_vars == <<orders, code_rows, daily_task_stats>>

\* the variables process_to_buffer leaves alone
aside_vars == <<call_vars, find_vars, match_vars, service_vars, sqlite_vars>>

-----------------------------------------------------------------------------
(* Values *)

NaN == <<"NaN">>
None == <<"None">>
Empty == <<>>

\* the value is None and not a record: a variable that still holds what
\* Init gave it, a state entry that ctx.get() does not find
Unset(v) == DOMAIN v = DOMAIN None

IsNa(v) == v = NaN
NotNa(v) == v # NaN

\* Python truthiness of a value that is None or a string
Truthy(v) == v # None /\ v # Empty

Min2(a, b) == IF a <= b THEN a ELSE b
Max2(a, b) == IF a >= b THEN a ELSE b
Min3(a, b, c) == Min2(a, Min2(b, c))

\* s[:n]
Prefix(s, n) == SubSeq(s, 1, Min2(n, Len(s)))

\* s.startswith(p)
StartsWith(s, p) == Len(p) <= Len(s) /\ SubSeq(s, 1, Len(p)) = p

\* p in s
Contains(s, p) ==
    \E i \in 1..(Len(s) + 1) :
        i + Len(p) - 1 <= Len(s) /\ SubSeq(s, i, i + Len(p) - 1) = p

\* boolean indexing: the positions from i on where the mask is true, in order
RECURSIVE WhereTrue(_, _)
WhereTrue(mask, i) ==
    IF i > Len(mask) THEN <<>>
    ELSE (IF mask[i] THEN <<i>> ELSE <<>>) \o WhereTrue(mask, i + 1)

Range(seq) == {seq[i] : i \in DOMAIN seq}

-----------------------------------------------------------------------------
(* Python dicts: a function on the set of keys *)

EmptyDict == [k \in {} |-> None]

\* d.setdefault(k, v): the first value of a key stays
DictSetDefault(d, k, v) == [x \in (DOMAIN d) \cup {k} |-> IF x \in DOMAIN d THEN d[x] ELSE v]

DictSet(d, k, v) == [x \in (DOMAIN d) \cup {k} |-> IF x = k THEN v ELSE d[x]]

\* d.get(k, default)
DictGet(d, k, default) == IF k \in DOMAIN d THEN d[k] ELSE default

\* dict(zip(keys, vals)): the pairs are inserted in order, a later one
\* replaces an earlier one with the same key
RECURSIVE DictZip(_, _, _, _)
DictZip(keys, vals, i, d) ==
    IF i > Len(keys) \/ i > Len(vals) THEN d
    ELSE DictZip(keys, vals, i + 1, DictSet(d, keys[i], vals[i]))

\* a map that looks a blank cell up as the empty string
SeriesMapBlankAsEmpty(series, d) ==
    [i \in DOMAIN series |->
        IF series[i] \in DOMAIN d THEN d[series[i]]
        ELSE IF IsNa(series[i]) /\ Empty \in DOMAIN d THEN d[Empty]
        ELSE NaN]

\* Series.map(d): the value of the key, NaN for a value that is no key
SeriesMap(series, d) ==
    [i \in DOMAIN series |->
        IF series[i] \in DOMAIN d THEN d[series[i]] ELSE NaN]

-----------------------------------------------------------------------------
(* pandas DataFrames: the headers in order, and the rows, each a sequence   *)
(* of cells in the order of the headers                                     *)

HasColumn(df, name) == \E i \in DOMAIN df.columns : df.columns[i] = name

\* the headers of a sheet are distinct (read_excel renames a repeated one)
ColPos(df, name) == CHOOSE i \in DOMAIN df.columns : df.columns[i] = name

\* df[name]
Column(df, name) == [r \in DOMAIN df.rows |-> df.rows[r][ColPos(df, name)]]

\* df[name] = series
WithColumn(df, name, series) ==
    IF HasColumn(df, name)
    THEN [df EXCEPT !.rows =
            [r \in DOMAIN df.rows |->
                [df.rows[r] EXCEPT ![ColPos(df, name)] = series[r]]]]
    ELSE [columns |-> Append(df.columns, name),
          rows |-> [r \in DOMAIN df.rows |-> Append(df.rows[r], series[r])]]

\* df.at[idx, name] = v
SetAt(df, idx, name, v) ==
    [df EXCEPT !.rows[idx][ColPos(df, name)] = v]

\* df.drop(columns=names)
DropColumns(df, names) ==
    LET keep == WhereTrue([c \in DOMAIN df.columns |-> df.columns[c] \notin names], 1)
    IN  [columns |-> [k \in DOMAIN keep |-> df.columns[keep[k]]],
         rows |-> [r \in DOMAIN df.rows |->
                     [k \in DOMAIN keep |-> df.rows[r][keep[k]]]]]

-----------------------------------------------------------------------------
(* _levenshtein_distance: the single-row dynamic programme                  *)

\* a cell that charges nothing for a substitution
LevCellFreeSubstitution(curr_row, prev_row, c1, str2, j) ==
    Min3(curr_row[j] + 1, prev_row[j + 1] + 1, prev_row[j])

\* a cell that charges 2 for an insertion
LevCellCostlyInsertion(curr_row, prev_row, c1, str2, j) ==
    Min3(curr_row[j] + 2,
         prev_row[j + 1] + 1,
         prev_row[j] + (IF c1 = str2[j] THEN 0 ELSE 1))

\* the cell appended to curr_row at column j of str2
LevCell(curr_row, prev_row, c1, str2, j) ==
    Min3(curr_row[j] + 1,
         prev_row[j + 1] + 1,
         prev_row[j] + (IF c1 = str2[j] THEN 0 ELSE 1))

\* the inner loop over str2: curr_row holds one cell more than the number
\* of characters of str2 already read
RECURSIVE LevInner(_, _, _, _)
LevInner(curr_row, prev_row, c1, str2) ==
    IF Len(curr_row) > Len(str2) THEN curr_row
    ELSE LevInner(Append(curr_row, LevCell(curr_row, prev_row, c1, str2, Len(curr_row))),
                  prev_row, c1, str2)

\* an outer loop whose rows start at i instead of i + 1
RECURSIVE LevOuterRowStartsAtIndex(_, _, _, _)
LevOuterRowStartsAtIndex(prev_row, str1, str2, i) ==
    IF i > Len(str1) THEN prev_row
    ELSE LevOuterRowStartsAtIndex(LevInner(<<i - 1>>, prev_row, str1[i], str2),
                                  str1, str2, i + 1)

\* the outer loop over str1, i counting from 1; a row is never empty, and
\* reading its length has TLC compute it before the next row is started
RECURSIVE LevOuter(_, _, _, _)
LevOuter(prev_row, str1, str2, i) ==
    IF i > Len(str1) \/ Len(prev_row) = 0 THEN prev_row
    ELSE LevOuter(LevInner(<<i>>, prev_row, str1[i], str2), str1, str2, i + 1)

\* prev_row[-1]
Last(row) == row[Len(row)]

levenshtein_distance(str1, str2) ==
    IF str1 = Empty \/ str1 = None
    THEN (IF str2 = Empty \/ str2 = None THEN 0 ELSE Len(str2))
    ELSE IF str2 = Empty \/ str2 = None
    THEN Len(str1)
    ELSE Last(LevOuter([j \in 1..(Len(str2) + 1) |-> j - 1], str1, str2, 1))

-----------------------------------------------------------------------------
(* _find_closest_match                                                      *)

\* A similarity is the fraction num/den. The code computes the float
\* 1 - distance / max_len; for the lengths of a product code the floats
\* compare as the fractions do (the float 1 - 3/10 is the float 0.7).
ZeroSim == [num |-> 0, den |-> 1]

\* a comparison that lets an equal similarity replace the best one
SimGtOrEqual(a, b) == a.num * b.den >= b.num * a.den

SimGt(a, b) == a.num * b.den > b.num * a.den
SimGe(a, b) == a.num * b.den >= b.num * a.den

\* threshold=0.70
Threshold == [num |-> 70, den |-> 100]

\* a similarity that is 1 when both strings are empty
SimilarityOfEqualWhenEmpty(distance, max_len) ==
    IF max_len > 0 THEN [num |-> max_len - distance, den |-> max_len]
    ELSE [num |-> 1, den |-> 1]

\* 1 - (distance / max_len) if max_len > 0 else 0
SimilarityOf(distance, max_len) ==
    IF max_len > 0 THEN [num |-> max_len - distance, den |-> max_len] ELSE ZeroSim

Similarity(code, new_code) ==
    SimilarityOf(levenshtein_distance(code, new_code), Max2(Len(code), Len(new_code)))

NoMatch == [match |-> None, similarity |-> ZeroSim]

\* the rows of mapping_df with a new code, as row positions
ValidRows(new_col) == 
    WhereTrue([r \in DOMAIN new_col |-> NotNa(new_col[r]) /\ new_col[r] # Empty], 1)

\* the rows among valid whose new code starts with the prefix
PrefixMatches(valid, new_col, prefix) ==
    WhereTrue([k \in DOMAIN valid |-> StartsWith(new_col[valid[k]], prefix)], 1)

\* a prefix filter without the way back to the valid rows
NarrowedWithoutFallback(valid, prefix_length, prefix_matches) ==
    [k \in DOMAIN prefix_matches |-> valid[prefix_matches[k]]]

\* valid_mapping after the prefix filter: the rows of prefix_matches when
\* there is a prefix and a row starts with it, the valid rows otherwise
Narrowed(valid, prefix_length, prefix_matches) ==
    IF prefix_length > 0 /\ prefix_matches # <<>>
    THEN [k \in DOMAIN prefix_matches |-> valid[prefix_matches[k]]]
    ELSE valid

ValidMapping(code, new_col, valid) ==
    Narrowed(valid, Min2(3, Len(code)),
             PrefixMatches(valid, new_col, Prefix(code, Min2(3, Len(code)))))

\* one turn of the loop over new_codes: best is [match, similarity]
BestStep(best, old_code, new_code, similarity) ==
    IF new_code = Empty \/ IsNa(new_code) THEN best
    ELSE IF SimGt(similarity, best.similarity)
    THEN [match |-> old_code, similarity |-> similarity]
    ELSE best

RECURSIVE BestLoop(_, _, _, _, _, _)
BestLoop(code, new_codes, old_codes, valid, i, best) ==
    IF i > Len(valid) THEN best
    ELSE BestLoop(code, new_codes, old_codes, valid, i + 1,
                  BestStep(best, old_codes[valid[i]], new_codes[valid[i]],
                           Similarity(code, new_codes[valid[i]])))

\* the return statement
Accept(best, threshold) ==
    IF SimGe(best.similarity, threshold) THEN best ELSE NoMatch

\* the body of _find_closest_match once valid_mapping is known not empty
ClosestAmong(code, new_col, old_col, valid, threshold) ==
    IF valid = <<>> THEN NoMatch
    ELSE Accept(BestLoop(code, new_col, old_col, ValidMapping(code, new_col, valid),
                         1, NoMatch),
                threshold)

find_closest_match(code, mdf, new_code_col, old_code_col, threshold) ==
    IF code = None \/ code = Empty THEN NoMatch
    ELSE ClosestAmong(code, Column(mdf, new_code_col), Column(mdf, old_code_col),
                      ValidRows(Column(mdf, new_code_col)), threshold)

-----------------------------------------------------------------------------
(* Header text: _normalize_column_name and the regular expressions          *)
(*                                                                         *)
(* A character is a one-character string: the printable characters of      *)
(* ASCII and the letters of the character classes of lines 78-83 with their *)
(* capitals are written as themselves, tab, line feed, form feed and        *)
(* carriage return by their escapes, and every other character by its code *)
(* point, as in "U+0111" (d with stroke), "U+0103" (a with breve), "U+0129" *)
(* (i with tilde) and "U+0169" (u with tilde), which a string of this       *)
(* language cannot hold.                                                    *)

\* the characters that str.lower() changes into one other character, and
\* under each that character
UpperChars ==
    <<
      "A", "B", "C", "D", "E", "F", "G", "H", "I", "J", "K", "L", "M", "N", "O", "P", "Q", "R",
      "S", "T", "U", "V", "W", "X", "Y", "Z", "À", "Á", "Â", "Ã", "U+00C4", "U+00C5", "U+00C6",
      "U+00C7", "È", "É", "Ê", "U+00CB", "Ì", "Í", "U+00CE", "U+00CF", "U+00D0", "U+00D1", "Ò",
      "Ó", "Ô", "Õ", "U+00D6", "U+00D8", "Ù", "Ú", "U+00DB", "U+00DC", "Ý", "U+00DE", "U+0100",
      "U+0102", "U+0104", "U+0106", "U+0108", "U+010A", "U+010C", "U+010E", "U+0110", "U+0112",
      "U+0114", "U+0116", "U+0118", "U+011A", "U+011C", "U+011E", "U+0120", "U+0122", "U+0124",
      "U+0126", "U+0128", "U+012A", "U+012C", "U+012E", "U+0132", "U+0134", "U+0136", "U+0139",
      "U+013B", "U+013D", "U+013F", "U+0141", "U+0143", "U+0145", "U+0147", "U+014A", "U+014C",
      "U+014E", "U+0150", "U+0152", "U+0154", "U+0156", "U+0158", "U+015A", "U+015C", "U+015E",
      "U+0160", "U+0162", "U+0164", "U+0166", "U+0168", "U+016A", "U+016C", "U+016E", "U+0170",
      "U+0172", "U+0174", "U+0176", "U+0178", "U+0179", "U+017B", "U+017D", "U+0181", "U+0182",
      "U+0184", "U+0186", "U+0187", "U+0189", "U+018A", "U+018B", "U+018E", "U+018F", "U+0190",
      "U+0191", "U+0193", "U+0194", "U+0196", "U+0197", "U+0198", "U+019C", "U+019D", "U+019F",
      "Ơ", "U+01A2", "U+01A4", "U+01A6", "U+01A7", "U+01A9", "U+01AC", "U+01AE", "Ư", "U+01B1",
      "U+01B2", "U+01B3", "U+01B5", "U+01B7", "U+01B8", "U+01BC", "U+01C4", "U+01C5", "U+01C7",
      "U+01C8", "U+01CA", "U+01CB", "U+01CD", "U+01CF", "U+01D1", "U+01D3", "U+01D5", "U+01D7",
      "U+01D9", "U+01DB", "U+01DE", "U+01E0", "U+01E2", "U+01E4", "U+01E6", "U+01E8", "U+01EA",
      "U+01EC", "U+01EE", "U+01F1", "U+01F2", "U+01F4", "U+01F6", "U+01F7", "U+01F8", "U+01FA",
      "U+01FC", "U+01FE", "U+0200", "U+0202", "U+0204", "U+0206", "U+0208", "U+020A", "U+020C",
      "U+020E", "U+0210", "U+0212", "U+0214", "U+0216", "U+0218", "U+021A", "U+021C", "U+021E",
      "U+0220", "U+0222", "U+0224", "U+0226", "U+0228", "U+022A", "U+022C", "U+022E", "U+0230",
      "U+0232", "U+023A", "U+023B", "U+023D", "U+023E", "U+0241", "U+0243", "U+0244", "U+0245",
      "U+0246", "U+0248", "U+024A", "U+024C", "U+024E", "U+0370", "U+0372", "U+0376", "U+037F",
      "U+0386", "U+0388", "U+0389", "U+038A", "U+038C", "U+038E", "U+038F", "U+0391", "U+0392",
      "U+0393", "U+0394", "U+0395", "U+0396", "U+0397", "U+0398", "U+0399", "U+039A", "U+039B",
      "U+039C", "U+039D", "U+039E", "U+039F", "U+03A0", "U+03A1", "U+03A3", "U+03A4", "U+03A5",
      "U+03A6", "U+03A7", "U+03A8", "U+03A9", "U+03AA", "U+03AB", "U+03CF", "U+03D8", "U+03DA",
      "U+03DC", "U+03DE", "U+03E0", "U+03E2", "U+03E4", "U+03E6", "U+03E8", "U+03EA", "U+03EC",
      "U+03EE", "U+03F4", "U+03F7", "U+03F9", "U+03FA", "U+03FD", "U+03FE", "U+03FF", "U+0400",
      "U+0401", "U+0402", "U+0403", "U+0404", "U+0405", "U+0406", "U+0407", "U+0408", "U+0409",
      "U+040A", "U+040B", "U+040C", "U+040D", "U+040E", "U+040F", "U+0410", "U+0411", "U+0412",
      "U+0413", "U+0414", "U+0415", "U+0416", "U+0417", "U+0418", "U+0419", "U+041A", "U+041B",
      "U+041C", "U+041D", "U+041E", "U+041F", "U+0420", "U+0421", "U+0422", "U+0423", "U+0424",
      "U+0425", "U+0426", "U+0427", "U+0428", "U+0429", "U+042A", "U+042B", "U+042C", "U+042D",
      "U+042E", "U+042F", "U+0460", "U+0462", "U+0464", "U+0466", "U+0468", "U+046A", "U+046C",
      "U+046E", "U+0470", "U+0472", "U+0474", "U+0476", "U+0478", "U+047A", "U+047C", "U+047E",
      "U+0480", "U+048A", "U+048C", "U+048E", "U+0490", "U+0492", "U+0494", "U+0496", "U+0498",
      "U+049A", "U+049C", "U+049E", "U+04A0", "U+04A2", "U+04A4", "U+04A6", "U+04A8", "U+04AA",
      "U+04AC", "U+04AE", "U+04B0", "U+04B2", "U+04B4", "U+04B6", "U+04B8", "U+04BA", "U+04BC",
      "U+04BE", "U+04C0", "U+04C1", "U+04C3", "U+04C5", "U+04C7", "U+04C9", "U+04CB", "U+04CD",
      "U+04D0", "U+04D2", "U+04D4", "U+04D6", "U+04D8", "U+04DA", "U+04DC", "U+04DE", "U+04E0",
      "U+04E2", "U+04E4", "U+04E6", "U+04E8", "U+04EA", "U+04EC", "U+04EE", "U+04F0", "U+04F2",
      "U+04F4", "U+04F6", "U+04F8", "U+04FA", "U+04FC", "U+04FE", "U+0500", "U+0502", "U+0504",
      "U+0506", "U+0508", "U+050A", "U+050C", "U+050E", "U+0510", "U+0512", "U+0514", "U+0516",
      "U+0518", "U+051A", "U+051C", "U+051E", "U+0520", "U+0522", "U+0524", "U+0526", "U+0528",
      "U+052A", "U+052C", "U+052E", "U+0531", "U+0532", "U+0533", "U+0534", "U+0535", "U+0536",
      "U+0537", "U+0538", "U+0539", "U+053A", "U+053B", "U+053C", "U+053D", "U+053E", "U+053F",
      "U+0540", "U+0541", "U+0542", "U+0543", "U+0544", "U+0545", "U+0546", "U+0547", "U+0548",
      "U+0549", "U+054A", "U+054B", "U+054C", "U+054D", "U+054E", "U+054F", "U+0550", "U+0551",
      "U+0552", "U+0553", "U+0554", "U+0555", "U+0556", "U+10A0", "U+10A1", "U+10A2", "U+10A3",
      "U+10A4", "U+10A5", "U+10A6", "U+10A7", "U+10A8", "U+10A9", "U+10AA", "U+10AB", "U+10AC",
      "U+10AD", "U+10AE", "U+10AF", "U+10B0", "U+10B1", "U+10B2", "U+10B3", "U+10B4", "U+10B5",
      "U+10B6", "U+10B7", "U+10B8", "U+10B9", "U+10BA", "U+10BB", "U+10BC", "U+10BD", "U+10BE",
      "U+10BF", "U+10C0", "U+10C1", "U+10C2", "U+10C3", "U+10C4", "U+10C5", "U+10C7", "U+10CD",
      "U+13A0", "U+13A1", "U+13A2", "U+13A3", "U+13A4", "U+13A5", "U+13A6", "U+13A7", "U+13A8",
      "U+13A9", "U+13AA", "U+13AB", "U+13AC", "U+13AD", "U+13AE", "U+13AF", "U+13B0", "U+13B1",
      "U+13B2", "U+13B3", "U+13B4", "U+13B5", "U+13B6", "U+13B7", "U+13B8", "U+13B9", "U+13BA",
      "U+13BB", "U+13BC", "U+13BD", "U+13BE", "U+13BF", "U+13C0", "U+13C1", "U+13C2", "U+13C3",
      "U+13C4", "U+13C5", "U+13C6", "U+13C7", "U+13C8", "U+13C9", "U+13CA", "U+13CB", "U+13CC",
      "U+13CD", "U+13CE", "U+13CF", "U+13D0", "U+13D1", "U+13D2", "U+13D3", "U+13D4", "U+13D5",
      "U+13D6", "U+13D7", "U+13D8", "U+13D9", "U+13DA", "U+13DB", "U+13DC", "U+13DD", "U+13DE",
      "U+13DF", "U+13E0", "U+13E1", "U+13E2", "U+13E3", "U+13E4", "U+13E5", "U+13E6", "U+13E7",
      "U+13E8", "U+13E9", "U+13EA", "U+13EB", "U+13EC", "U+13ED", "U+13EE", "U+13EF", "U+13F0",
      "U+13F1", "U+13F2", "U+13F3", "U+13F4", "U+13F5", "U+1C90", "U+1C91", "U+1C92", "U+1C93",
      "U+1C94", "U+1C95", "U+1C96", "U+1C97", "U+1C98", "U+1C99", "U+1C9A", "U+1C9B", "U+1C9C",
      "U+1C9D", "U+1C9E", "U+1C9F", "U+1CA0", "U+1CA1", "U+1CA2", "U+1CA3", "U+1CA4", "U+1CA5",
      "U+1CA6", "U+1CA7", "U+1CA8", "U+1CA9", "U+1CAA", "U+1CAB", "U+1CAC", "U+1CAD", "U+1CAE",
      "U+1CAF", "U+1CB0", "U+1CB1", "U+1CB2", "U+1CB3", "U+1CB4", "U+1CB5", "U+1CB6", "U+1CB7",
      "U+1CB8", "U+1CB9", "U+1CBA", "U+1CBD", "U+1CBE", "U+1CBF", "U+1E00", "U+1E02", "U+1E04",
      "U+1E06", "U+1E08", "U+1E0A", "U+1E0C", "U+1E0E", "U+1E10", "U+1E12", "U+1E14", "U+1E16",
      "U+1E18", "U+1E1A", "U+1E1C", "U+1E1E", "U+1E20", "U+1E22", "U+1E24", "U+1E26", "U+1E28",
      "U+1E2A", "U+1E2C", "U+1E2E", "U+1E30", "U+1E32", "U+1E34", "U+1E36", "U+1E38", "U+1E3A",
      "U+1E3C", "U+1E3E", "U+1E40", "U+1E42", "U+1E44", "U+1E46", "U+1E48", "U+1E4A", "U+1E4C",
      "U+1E4E", "U+1E50", "U+1E52", "U+1E54", "U+1E56", "U+1E58", "U+1E5A", "U+1E5C", "U+1E5E",
      "U+1E60", "U+1E62", "U+1E64", "U+1E66", "U+1E68", "U+1E6A", "U+1E6C", "U+1E6E", "U+1E70",
      "U+1E72", "U+1E74", "U+1E76", "U+1E78", "U+1E7A", "U+1E7C", "U+1E7E", "U+1E80", "U+1E82",
      "U+1E84", "U+1E86", "U+1E88", "U+1E8A", "U+1E8C", "U+1E8E", "U+1E90", "U+1E92", "U+1E94",
      "U+1E9E", "Ạ", "Ả", "Ấ", "Ầ", "Ẩ", "Ẫ", "Ậ", "Ắ", "Ằ", "Ẳ", "Ẵ", "Ặ", "Ẹ", "Ẻ", "Ẽ", "Ế",
      "Ề", "Ể", "Ễ", "Ệ", "Ỉ", "Ị", "Ọ", "Ỏ", "Ố", "Ồ", "Ổ", "Ỗ", "Ộ", "Ớ", "Ờ", "Ở", "Ỡ", "Ợ",
      "Ụ", "Ủ", "Ứ", "Ừ", "Ử", "Ữ", "Ự", "Ỳ", "Ỵ", "Ỷ", "Ỹ", "U+1EFA", "U+1EFC", "U+1EFE",
      "U+1F08", "U+1F09", "U+1F0A", "U+1F0B", "U+1F0C", "U+1F0D", "U+1F0E", "U+1F0F", "U+1F18",
      "U+1F19", "U+1F1A", "U+1F1B", "U+1F1C", "U+1F1D", "U+1F28", "U+1F29", "U+1F2A", "U+1F2B",
      "U+1F2C", "U+1F2D", "U+1F2E", "U+1F2F", "U+1F38", "U+1F39", "U+1F3A", "U+1F3B", "U+1F3C",
      "U+1F3D", "U+1F3E", "U+1F3F", "U+1F48", "U+1F49", "U+1F4A", "U+1F4B", "U+1F4C", "U+1F4D",
      "U+1F59", "U+1F5B", "U+1F5D", "U+1F5F", "U+1F68", "U+1F69", "U+1F6A", "U+1F6B", "U+1F6C",
      "U+1F6D", "U+1F6E", "U+1F6F", "U+1F88", "U+1F89", "U+1F8A", "U+1F8B", "U+1F8C", "U+1F8D",
      "U+1F8E", "U+1F8F", "U+1F98", "U+1F99", "U+1F9A", "U+1F9B", "U+1F9C", "U+1F9D", "U+1F9E",
      "U+1F9F", "U+1FA8", "U+1FA9", "U+1FAA", "U+1FAB", "U+1FAC", "U+1FAD", "U+1FAE", "U+1FAF",
      "U+1FB8", "U+1FB9", "U+1FBA", "U+1FBB", "U+1FBC", "U+1FC8", "U+1FC9", "U+1FCA", "U+1FCB",
      "U+1FCC", "U+1FD8", "U+1FD9", "U+1FDA", "U+1FDB", "U+1FE8", "U+1FE9", "U+1FEA", "U+1FEB",
      "U+1FEC", "U+1FF8", "U+1FF9", "U+1FFA", "U+1FFB", "U+1FFC", "U+2126", "U+212A", "U+212B",
      "U+2132", "U+2160", "U+2161", "U+2162", "U+2163", "U+2164", "U+2165", "U+2166", "U+2167",
      "U+2168", "U+2169", "U+216A", "U+216B", "U+216C", "U+216D", "U+216E", "U+216F", "U+2183",
      "U+24B6", "U+24B7", "U+24B8", "U+24B9", "U+24BA", "U+24BB", "U+24BC", "U+24BD", "U+24BE",
      "U+24BF", "U+24C0", "U+24C1", "U+24C2", "U+24C3", "U+24C4", "U+24C5", "U+24C6", "U+24C7",
      "U+24C8", "U+24C9", "U+24CA", "U+24CB", "U+24CC", "U+24CD", "U+24CE", "U+24CF", "U+2C00",
      "U+2C01", "U+2C02", "U+2C03", "U+2C04", "U+2C05", "U+2C06", "U+2C07", "U+2C08", "U+2C09",
      "U+2C0A", "U+2C0B", "U+2C0C", "U+2C0D", "U+2C0E", "U+2C0F", "U+2C10", "U+2C11", "U+2C12",
      "U+2C13", "U+2C14", "U+2C15", "U+2C16", "U+2C17", "U+2C18", "U+2C19", "U+2C1A", "U+2C1B",
      "U+2C1C", "U+2C1D", "U+2C1E", "U+2C1F", "U+2C20", "U+2C21", "U+2C22", "U+2C23", "U+2C24",
      "U+2C25", "U+2C26", "U+2C27", "U+2C28", "U+2C29", "U+2C2A", "U+2C2B", "U+2C2C", "U+2C2D",
      "U+2C2E", "U+2C2F", "U+2C60", "U+2C62", "U+2C63", "U+2C64", "U+2C67", "U+2C69", "U+2C6B",
      "U+2C6D", "U+2C6E", "U+2C6F", "U+2C70", "U+2C72", "U+2C75", "U+2C7E", "U+2C7F", "U+2C80",
      "U+2C82", "U+2C84", "U+2C86", "U+2C88", "U+2C8A", "U+2C8C", "U+2C8E", "U+2C90", "U+2C92",
      "U+2C94", "U+2C96", "U+2C98", "U+2C9A", "U+2C9C", "U+2C9E", "U+2CA0", "U+2CA2", "U+2CA4",
      "U+2CA6", "U+2CA8", "U+2CAA", "U+2CAC", "U+2CAE", "U+2CB0", "U+2CB2", "U+2CB4", "U+2CB6",
      "U+2CB8", "U+2CBA", "U+2CBC", "U+2CBE", "U+2CC0", "U+2CC2", "U+2CC4", "U+2CC6", "U+2CC8",
      "U+2CCA", "U+2CCC", "U+2CCE", "U+2CD0", "U+2CD2", "U+2CD4", "U+2CD6", "U+2CD8", "U+2CDA",
      "U+2CDC", "U+2CDE", "U+2CE0", "U+2CE2", "U+2CEB", "U+2CED", "U+2CF2", "U+A640", "U+A642",
      "U+A644", "U+A646", "U+A648", "U+A64A", "U+A64C", "U+A64E", "U+A650", "U+A652", "U+A654",
      "U+A656", "U+A658", "U+A65A", "U+A65C", "U+A65E", "U+A660", "U+A662", "U+A664", "U+A666",
      "U+A668", "U+A66A", "U+A66C", "U+A680", "U+A682", "U+A684", "U+A686", "U+A688", "U+A68A",
      "U+A68C", "U+A68E", "U+A690", "U+A692", "U+A694", "U+A696", "U+A698", "U+A69A", "U+A722",
      "U+A724", "U+A726", "U+A728", "U+A72A", "U+A72C", "U+A72E", "U+A732", "U+A734", "U+A736",
      "U+A738", "U+A73A", "U+A73C", "U+A73E", "U+A740", "U+A742", "U+A744", "U+A746", "U+A748",
      "U+A74A", "U+A74C", "U+A74E", "U+A750", "U+A752", "U+A754", "U+A756", "U+A758", "U+A75A",
      "U+A75C", "U+A75E", "U+A760", "U+A762", "U+A764", "U+A766", "U+A768", "U+A76A", "U+A76C",
      "U+A76E", "U+A779", "U+A77B", "U+A77D", "U+A77E", "U+A780", "U+A782", "U+A784", "U+A786",
      "U+A78B", "U+A78D", "U+A790", "U+A792", "U+A796", "U+A798", "U+A79A", "U+A79C", "U+A79E",
      "U+A7A0", "U+A7A2", "U+A7A4", "U+A7A6", "U+A7A8", "U+A7AA", "U+A7AB", "U+A7AC", "U+A7AD",
      "U+A7AE", "U+A7B0", "U+A7B1", "U+A7B2", "U+A7B3", "U+A7B4", "U+A7B6", "U+A7B8", "U+A7BA",
      "U+A7BC", "U+A7BE", "U+A7C0", "U+A7C2", "U+A7C4", "U+A7C5", "U+A7C6", "U+A7C7", "U+A7C9",
      "U+A7D0", "U+A7D6", "U+A7D8", "U+A7F5", "U+FF21", "U+FF22", "U+FF23", "U+FF24", "U+FF25",
      "U+FF26", "U+FF27", "U+FF28", "U+FF29", "U+FF2A", "U+FF2B", "U+FF2C", "U+FF2D", "U+FF2E",
      "U+FF2F", "U+FF30", "U+FF31", "U+FF32", "U+FF33", "U+FF34", "U+FF35", "U+FF36", "U+FF37",
      "U+FF38", "U+FF39", "U+FF3A", "U+10400", "U+10401", "U+10402", "U+10403", "U+10404",
      "U+10405", "U+10406", "U+10407", "U+10408", "U+10409", "U+1040A", "U+1040B", "U+1040C",
      "U+1040D", "U+1040E", "U+1040F", "U+10410", "U+10411", "U+10412", "U+10413", "U+10414",
      "U+10415", "U+10416", "U+10417", "U+10418", "U+10419", "U+1041A", "U+1041B", "U+1041C",
      "U+1041D", "U+1041E", "U+1041F", "U+10420", "U+10421", "U+10422", "U+10423", "U+10424",
      "U+10425", "U+10426", "U+10427", "U+104B0", "U+104B1", "U+104B2", "U+104B3", "U+104B4",
      "U+104B5", "U+104B6", "U+104B7", "U+104B8", "U+104B9", "U+104BA", "U+104BB", "U+104BC",
      "U+104BD", "U+104BE", "U+104BF", "U+104C0", "U+104C1", "U+104C2", "U+104C3", "U+104C4",
      "U+104C5", "U+104C6", "U+104C7", "U+104C8", "U+104C9", "U+104CA", "U+104CB", "U+104CC",
      "U+104CD", "U+104CE", "U+104CF", "U+104D0", "U+104D1", "U+104D2", "U+104D3", "U+10570",
      "U+10571", "U+10572", "U+10573", "U+10574", "U+10575", "U+10576", "U+10577", "U+10578",
      "U+10579", "U+1057A", "U+1057C", "U+1057D", "U+1057E", "U+1057F", "U+10580", "U+10581",
      "U+10582", "U+10583", "U+10584", "U+10585", "U+10586", "U+10587", "U+10588", "U+10589",
      "U+1058A", "U+1058C", "U+1058D", "U+1058E", "U+1058F", "U+10590", "U+10591", "U+10592",
      "U+10594", "U+10595", "U+10C80", "U+10C81", "U+10C82", "U+10C83", "U+10C84", "U+10C85",
      "U+10C86", "U+10C87", "U+10C88", "U+10C89", "U+10C8A", "U+10C8B", "U+10C8C", "U+10C8D",
      "U+10C8E", "U+10C8F", "U+10C90", "U+10C91", "U+10C92", "U+10C93", "U+10C94", "U+10C95",
      "U+10C96", "U+10C97", "U+10C98", "U+10C99", "U+10C9A", "U+10C9B", "U+10C9C", "U+10C9D",
      "U+10C9E", "U+10C9F", "U+10CA0", "U+10CA1", "U+10CA2", "U+10CA3", "U+10CA4", "U+10CA5",
      "U+10CA6", "U+10CA7", "U+10CA8", "U+10CA9", "U+10CAA", "U+10CAB", "U+10CAC", "U+10CAD",
      "U+10CAE", "U+10CAF", "U+10CB0", "U+10CB1", "U+10CB2", "U+118A0", "U+118A1", "U+118A2",
      "U+118A3", "U+118A4", "U+118A5", "U+118A6", "U+118A7", "U+118A8", "U+118A9", "U+118AA",
      "U+118AB", "U+118AC", "U+118AD", "U+118AE", "U+118AF", "U+118B0", "U+118B1", "U+118B2",
      "U+118B3", "U+118B4", "U+118B5", "U+118B6", "U+118B7", "U+118B8", "U+118B9", "U+118BA",
      "U+118BB", "U+118BC", "U+118BD", "U+118BE", "U+118BF", "U+16E40", "U+16E41", "U+16E42",
      "U+16E43", "U+16E44", "U+16E45", "U+16E46", "U+16E47", "U+16E48", "U+16E49", "U+16E4A",
      "U+16E4B", "U+16E4C", "U+16E4D", "U+16E4E", "U+16E4F", "U+16E50", "U+16E51", "U+16E52",
      "U+16E53", "U+16E54", "U+16E55", "U+16E56", "U+16E57", "U+16E58", "U+16E59", "U+16E5A",
      "U+16E5B", "U+16E5C", "U+16E5D", "U+16E5E", "U+16E5F", "U+1E900", "U+1E901", "U+1E902",
      "U+1E903", "U+1E904", "U+1E905", "U+1E906", "U+1E907", "U+1E908", "U+1E909", "U+1E90A",
      "U+1E90B", "U+1E90C", "U+1E90D", "U+1E90E", "U+1E90F", "U+1E910", "U+1E911", "U+1E912",
      "U+1E913", "U+1E914", "U+1E915", "U+1E916", "U+1E917", "U+1E918", "U+1E919", "U+1E91A",
      "U+1E91B", "U+1E91C", "U+1E91D", "U+1E91E", "U+1E91F", "U+1E920", "U+1E921">>

LowerChars ==
    <<
      "a", "b", "c", "d", "e", "f", "g", "h", "i", "j", "k", "l", "m", "n", "o", "p", "q", "r",
      "s", "t", "u", "v", "w", "x", "y", "z", "à", "á", "â", "ã", "U+00E4", "U+00E5", "U+00E6",
      "U+00E7", "è", "é", "ê", "U+00EB", "ì", "í", "U+00EE", "U+00EF", "U+00F0", "U+00F1", "ò",
      "ó", "ô", "õ", "U+00F6", "U+00F8", "ù", "ú", "U+00FB", "U+00FC", "ý", "U+00FE", "U+0101",
      "U+0103", "U+0105", "U+0107", "U+0109", "U+010B", "U+010D", "U+010F", "U+0111", "U+0113",
      "U+0115", "U+0117", "U+0119", "U+011B", "U+011D", "U+011F", "U+0121", "U+0123", "U+0125",
      "U+0127", "U+0129", "U+012B", "U+012D", "U+012F", "U+0133", "U+0135", "U+0137", "U+013A",
      "U+013C", "U+013E", "U+0140", "U+0142", "U+0144", "U+0146", "U+0148", "U+014B", "U+014D",
      "U+014F", "U+0151", "U+0153", "U+0155", "U+0157", "U+0159", "U+015B", "U+015D", "U+015F",
      "U+0161", "U+0163", "U+0165", "U+0167", "U+0169", "U+016B", "U+016D", "U+016F", "U+0171",
      "U+0173", "U+0175", "U+0177", "U+00FF", "U+017A", "U+017C", "U+017E", "U+0253", "U+0183",
      "U+0185", "U+0254", "U+0188", "U+0256", "U+0257", "U+018C", "U+01DD", "U+0259", "U+025B",
      "U+0192", "U+0260", "U+0263", "U+0269", "U+0268", "U+0199", "U+026F", "U+0272", "U+0275",
      "ơ", "U+01A3", "U+01A5", "U+0280", "U+01A8", "U+0283", "U+01AD", "U+0288", "ư", "U+028A",
      "U+028B", "U+01B4", "U+01B6", "U+0292", "U+01B9", "U+01BD", "U+01C6", "U+01C6", "U+01C9",
      "U+01C9", "U+01CC", "U+01CC", "U+01CE", "U+01D0", "U+01D2", "U+01D4", "U+01D6", "U+01D8",
      "U+01DA", "U+01DC", "U+01DF", "U+01E1", "U+01E3", "U+01E5", "U+01E7", "U+01E9", "U+01EB",
      "U+01ED", "U+01EF", "U+01F3", "U+01F3", "U+01F5", "U+0195", "U+01BF", "U+01F9", "U+01FB",
      "U+01FD", "U+01FF", "U+0201", "U+0203", "U+0205", "U+0207", "U+0209", "U+020B", "U+020D",
      "U+020F", "U+0211", "U+0213", "U+0215", "U+0217", "U+0219", "U+021B", "U+021D", "U+021F",
      "U+019E", "U+0223", "U+0225", "U+0227", "U+0229", "U+022B", "U+022D", "U+022F", "U+0231",
      "U+0233", "U+2C65", "U+023C", "U+019A", "U+2C66", "U+0242", "U+0180", "U+0289", "U+028C",
      "U+0247", "U+0249", "U+024B", "U+024D", "U+024F", "U+0371", "U+0373", "U+0377", "U+03F3",
      "U+03AC", "U+03AD", "U+03AE", "U+03AF", "U+03CC", "U+03CD", "U+03CE", "U+03B1", "U+03B2",
      "U+03B3", "U+03B4", "U+03B5", "U+03B6", "U+03B7", "U+03B8", "U+03B9", "U+03BA", "U+03BB",
      "U+03BC", "U+03BD", "U+03BE", "U+03BF", "U+03C0", "U+03C1", "U+03C3", "U+03C4", "U+03C5",
      "U+03C6", "U+03C7", "U+03C8", "U+03C9", "U+03CA", "U+03CB", "U+03D7", "U+03D9", "U+03DB",
      "U+03DD", "U+03DF", "U+03E1", "U+03E3", "U+03E5", "U+03E7", "U+03E9", "U+03EB", "U+03ED",
      "U+03EF", "U+03B8", "U+03F8", "U+03F2", "U+03FB", "U+037B", "U+037C", "U+037D", "U+0450",
      "U+0451", "U+0452", "U+0453", "U+0454", "U+0455", "U+0456", "U+0457", "U+0458", "U+0459",
      "U+045A", "U+045B", "U+045C", "U+045D", "U+045E", "U+045F", "U+0430", "U+0431", "U+0432",
      "U+0433", "U+0434", "U+0435", "U+0436", "U+0437", "U+0438", "U+0439", "U+043A", "U+043B",
      "U+043C", "U+043D", "U+043E", "U+043F", "U+0440", "U+0441", "U+0442", "U+0443", "U+0444",
      "U+0445", "U+0446", "U+0447", "U+0448", "U+0449", "U+044A", "U+044B", "U+044C", "U+044D",
      "U+044E", "U+044F", "U+0461", "U+0463", "U+0465", "U+0467", "U+0469", "U+046B", "U+046D",
      "U+046F", "U+0471", "U+0473", "U+0475", "U+0477", "U+0479", "U+047B", "U+047D", "U+047F",
      "U+0481", "U+048B", "U+048D", "U+048F", "U+0491", "U+0493", "U+0495", "U+0497", "U+0499",
      "U+049B", "U+049D", "U+049F", "U+04A1", "U+04A3", "U+04A5", "U+04A7", "U+04A9", "U+04AB",
      "U+04AD", "U+04AF", "U+04B1", "U+04B3", "U+04B5", "U+04B7", "U+04B9", "U+04BB", "U+04BD",
      "U+04BF", "U+04CF", "U+04C2", "U+04C4", "U+04C6", "U+04C8", "U+04CA", "U+04CC", "U+04CE",
      "U+04D1", "U+04D3", "U+04D5", "U+04D7", "U+04D9", "U+04DB", "U+04DD", "U+04DF", "U+04E1",
      "U+04E3", "U+04E5", "U+04E7", "U+04E9", "U+04EB", "U+04ED", "U+04EF", "U+04F1", "U+04F3",
      "U+04F5", "U+04F7", "U+04F9", "U+04FB", "U+04FD", "U+04FF", "U+0501", "U+0503", "U+0505",
      "U+0507", "U+0509", "U+050B", "U+050D", "U+050F", "U+0511", "U+0513", "U+0515", "U+0517",
      "U+0519", "U+051B", "U+051D", "U+051F", "U+0521", "U+0523", "U+0525", "U+0527", "U+0529",
      "U+052B", "U+052D", "U+052F", "U+0561", "U+0562", "U+0563", "U+0564", "U+0565", "U+0566",
      "U+0567", "U+0568", "U+0569", "U+056A", "U+056B", "U+056C", "U+056D", "U+056E", "U+056F",
      "U+0570", "U+0571", "U+0572", "U+0573", "U+0574", "U+0575", "U+0576", "U+0577", "U+0578",
      "U+0579", "U+057A", "U+057B", "U+057C", "U+057D", "U+057E", "U+057F", "U+0580", "U+0581",
      "U+0582", "U+0583", "U+0584", "U+0585", "U+0586", "U+2D00", "U+2D01", "U+2D02", "U+2D03",
      "U+2D04", "U+2D05", "U+2D06", "U+2D07", "U+2D08", "U+2D09", "U+2D0A", "U+2D0B", "U+2D0C",
      "U+2D0D", "U+2D0E", "U+2D0F", "U+2D10", "U+2D11", "U+2D12", "U+2D13", "U+2D14", "U+2D15",
      "U+2D16", "U+2D17", "U+2D18", "U+2D19", "U+2D1A", "U+2D1B", "U+2D1C", "U+2D1D", "U+2D1E",
      "U+2D1F", "U+2D20", "U+2D21", "U+2D22", "U+2D23", "U+2D24", "U+2D25", "U+2D27", "U+2D2D",
      "U+AB70", "U+AB71", "U+AB72", "U+AB73", "U+AB74", "U+AB75", "U+AB76", "U+AB77", "U+AB78",
      "U+AB79", "U+AB7A", "U+AB7B", "U+AB7C", "U+AB7D", "U+AB7E", "U+AB7F", "U+AB80", "U+AB81",
      "U+AB82", "U+AB83", "U+AB84", "U+AB85", "U+AB86", "U+AB87", "U+AB88", "U+AB89", "U+AB8A",
      "U+AB8B", "U+AB8C", "U+AB8D", "U+AB8E", "U+AB8F", "U+AB90", "U+AB91", "U+AB92", "U+AB93",
      "U+AB94", "U+AB95", "U+AB96", "U+AB97", "U+AB98", "U+AB99", "U+AB9A", "U+AB9B", "U+AB9C",
      "U+AB9D", "U+AB9E", "U+AB9F", "U+ABA0", "U+ABA1", "U+ABA2", "U+ABA3", "U+ABA4", "U+ABA5",
      "U+ABA6", "U+ABA7", "U+ABA8", "U+ABA9", "U+ABAA", "U+ABAB", "U+ABAC", "U+ABAD", "U+ABAE",
      "U+ABAF", "U+ABB0", "U+ABB1", "U+ABB2", "U+ABB3", "U+ABB4", "U+ABB5", "U+ABB6", "U+ABB7",
      "U+ABB8", "U+ABB9", "U+ABBA", "U+ABBB", "U+ABBC", "U+ABBD", "U+ABBE", "U+ABBF", "U+13F8",
      "U+13F9", "U+13FA", "U+13FB", "U+13FC", "U+13FD", "U+10D0", "U+10D1", "U+10D2", "U+10D3",
      "U+10D4", "U+10D5", "U+10D6", "U+10D7", "U+10D8", "U+10D9", "U+10DA", "U+10DB", "U+10DC",
      "U+10DD", "U+10DE", "U+10DF", "U+10E0", "U+10E1", "U+10E2", "U+10E3", "U+10E4", "U+10E5",
      "U+10E6", "U+10E7", "U+10E8", "U+10E9", "U+10EA", "U+10EB", "U+10EC", "U+10ED", "U+10EE",
      "U+10EF", "U+10F0", "U+10F1", "U+10F2", "U+10F3", "U+10F4", "U+10F5", "U+10F6", "U+10F7",
      "U+10F8", "U+10F9", "U+10FA", "U+10FD", "U+10FE", "U+10FF", "U+1E01", "U+1E03", "U+1E05",
      "U+1E07", "U+1E09", "U+1E0B", "U+1E0D", "U+1E0F", "U+1E11", "U+1E13", "U+1E15", "U+1E17",
      "U+1E19", "U+1E1B", "U+1E1D", "U+1E1F", "U+1E21", "U+1E23", "U+1E25", "U+1E27", "U+1E29",
      "U+1E2B", "U+1E2D", "U+1E2F", "U+1E31", "U+1E33", "U+1E35", "U+1E37", "U+1E39", "U+1E3B",
      "U+1E3D", "U+1E3F", "U+1E41", "U+1E43", "U+1E45", "U+1E47", "U+1E49", "U+1E4B", "U+1E4D",
      "U+1E4F", "U+1E51", "U+1E53", "U+1E55", "U+1E57", "U+1E59", "U+1E5B", "U+1E5D", "U+1E5F",
      "U+1E61", "U+1E63", "U+1E65", "U+1E67", "U+1E69", "U+1E6B", "U+1E6D", "U+1E6F", "U+1E71",
      "U+1E73", "U+1E75", "U+1E77", "U+1E79", "U+1E7B", "U+1E7D", "U+1E7F", "U+1E81", "U+1E83",
      "U+1E85", "U+1E87", "U+1E89", "U+1E8B", "U+1E8D", "U+1E8F", "U+1E91", "U+1E93", "U+1E95",
      "U+00DF", "ạ", "ả", "ấ", "ầ", "ẩ", "ẫ", "ậ", "ắ", "ằ", "ẳ", "ẵ", "ặ", "ẹ", "ẻ", "ẽ", "ế",
      "ề", "ể", "ễ", "ệ", "ỉ", "ị", "ọ", "ỏ", "ố", "ồ", "ổ", "ỗ", "ộ", "ớ", "ờ", "ở", "ỡ", "ợ",
      "ụ", "ủ", "ứ", "ừ", "ử", "ữ", "ự", "ỳ", "ỵ", "ỷ", "ỹ", "U+1EFB", "U+1EFD", "U+1EFF",
      "U+1F00", "U+1F01", "U+1F02", "U+1F03", "U+1F04", "U+1F05", "U+1F06", "U+1F07", "U+1F10",
      "U+1F11", "U+1F12", "U+1F13", "U+1F14", "U+1F15", "U+1F20", "U+1F21", "U+1F22", "U+1F23",
      "U+1F24", "U+1F25", "U+1F26", "U+1F27", "U+1F30", "U+1F31", "U+1F32", "U+1F33", "U+1F34",
      "U+1F35", "U+1F36", "U+1F37", "U+1F40", "U+1F41", "U+1F42", "U+1F43", "U+1F44", "U+1F45",
      "U+1F51", "U+1F53", "U+1F55", "U+1F57", "U+1F60", "U+1F61", "U+1F62", "U+1F63", "U+1F64",
      "U+1F65", "U+1F66", "U+1F67", "U+1F80", "U+1F81", "U+1F82", "U+1F83", "U+1F84", "U+1F85",
      "U+1F86", "U+1F87", "U+1F90", "U+1F91", "U+1F92", "U+1F93", "U+1F94", "U+1F95", "U+1F96",
      "U+1F97", "U+1FA0", "U+1FA1", "U+1FA2", "U+1FA3", "U+1FA4", "U+1FA5", "U+1FA6", "U+1FA7",
      "U+1FB0", "U+1FB1", "U+1F70", "U+1F71", "U+1FB3", "U+1F72", "U+1F73", "U+1F74", "U+1F75",
      "U+1FC3", "U+1FD0", "U+1FD1", "U+1F76", "U+1F77", "U+1FE0", "U+1FE1", "U+1F7A", "U+1F7B",
      "U+1FE5", "U+1F78", "U+1F79", "U+1F7C", "U+1F7D", "U+1FF3", "U+03C9", "k", "U+00E5",
      "U+214E", "U+2170", "U+2171", "U+2172", "U+2173", "U+2174", "U+2175", "U+2176", "U+2177",
      "U+2178", "U+2179", "U+217A", "U+217B", "U+217C", "U+217D", "U+217E", "U+217F", "U+2184",
      "U+24D0", "U+24D1", "U+24D2", "U+24D3", "U+24D4", "U+24D5", "U+24D6", "U+24D7", "U+24D8",
      "U+24D9", "U+24DA", "U+24DB", "U+24DC", "U+24DD", "U+24DE", "U+24DF", "U+24E0", "U+24E1",
      "U+24E2", "U+24E3", "U+24E4", "U+24E5", "U+24E6", "U+24E7", "U+24E8", "U+24E9", "U+2C30",
      "U+2C31", "U+2C32", "U+2C33", "U+2C34", "U+2C35", "U+2C36", "U+2C37", "U+2C38", "U+2C39",
      "U+2C3A", "U+2C3B", "U+2C3C", "U+2C3D", "U+2C3E", "U+2C3F", "U+2C40", "U+2C41", "U+2C42",
      "U+2C43", "U+2C44", "U+2C45", "U+2C46", "U+2C47", "U+2C48", "U+2C49", "U+2C4A", "U+2C4B",
      "U+2C4C", "U+2C4D", "U+2C4E", "U+2C4F", "U+2C50", "U+2C51", "U+2C52", "U+2C53", "U+2C54",
      "U+2C55", "U+2C56", "U+2C57", "U+2C58", "U+2C59", "U+2C5A", "U+2C5B", "U+2C5C", "U+2C5D",
      "U+2C5E", "U+2C5F", "U+2C61", "U+026B", "U+1D7D", "U+027D", "U+2C68", "U+2C6A", "U+2C6C",
      "U+0251", "U+0271", "U+0250", "U+0252", "U+2C73", "U+2C76", "U+023F", "U+0240", "U+2C81",
      "U+2C83", "U+2C85", "U+2C87", "U+2C89", "U+2C8B", "U+2C8D", "U+2C8F", "U+2C91", "U+2C93",
      "U+2C95", "U+2C97", "U+2C99", "U+2C9B", "U+2C9D", "U+2C9F", "U+2CA1", "U+2CA3", "U+2CA5",
      "U+2CA7", "U+2CA9", "U+2CAB", "U+2CAD", "U+2CAF", "U+2CB1", "U+2CB3", "U+2CB5", "U+2CB7",
      "U+2CB9", "U+2CBB", "U+2CBD", "U+2CBF", "U+2CC1", "U+2CC3", "U+2CC5", "U+2CC7", "U+2CC9",
      "U+2CCB", "U+2CCD", "U+2CCF", "U+2CD1", "U+2CD3", "U+2CD5", "U+2CD7", "U+2CD9", "U+2CDB",
      "U+2CDD", "U+2CDF", "U+2CE1", "U+2CE3", "U+2CEC", "U+2CEE", "U+2CF3", "U+A641", "U+A643",
      "U+A645", "U+A647", "U+A649", "U+A64B", "U+A64D", "U+A64F", "U+A651", "U+A653", "U+A655",
      "U+A657", "U+A659", "U+A65B", "U+A65D", "U+A65F", "U+A661", "U+A663", "U+A665", "U+A667",
      "U+A669", "U+A66B", "U+A66D", "U+A681", "U+A683", "U+A685", "U+A687", "U+A689", "U+A68B",
      "U+A68D", "U+A68F", "U+A691", "U+A693", "U+A695", "U+A697", "U+A699", "U+A69B", "U+A723",
      "U+A725", "U+A727", "U+A729", "U+A72B", "U+A72D", "U+A72F", "U+A733", "U+A735", "U+A737",
      "U+A739", "U+A73B", "U+A73D", "U+A73F", "U+A741", "U+A743", "U+A745", "U+A747", "U+A749",
      "U+A74B", "U+A74D", "U+A74F", "U+A751", "U+A753", "U+A755", "U+A757", "U+A759", "U+A75B",
      "U+A75D", "U+A75F", "U+A761", "U+A763", "U+A765", "U+A767", "U+A769", "U+A76B", "U+A76D",
      "U+A76F", "U+A77A", "U+A77C", "U+1D79", "U+A77F", "U+A781", "U+A783", "U+A785", "U+A787",
      "U+A78C", "U+0265", "U+A791", "U+A793", "U+A797", "U+A799", "U+A79B", "U+A79D", "U+A79F",
      "U+A7A1", "U+A7A3", "U+A7A5", "U+A7A7", "U+A7A9", "U+0266", "U+025C", "U+0261", "U+026C",
      "U+026A", "U+029E", "U+0287", "U+029D", "U+AB53", "U+A7B5", "U+A7B7", "U+A7B9", "U+A7BB",
      "U+A7BD", "U+A7BF", "U+A7C1", "U+A7C3", "U+A794", "U+0282", "U+1D8E", "U+A7C8", "U+A7CA",
      "U+A7D1", "U+A7D7", "U+A7D9", "U+A7F6", "U+FF41", "U+FF42", "U+FF43", "U+FF44", "U+FF45",
      "U+FF46", "U+FF47", "U+FF48", "U+FF49", "U+FF4A", "U+FF4B", "U+FF4C", "U+FF4D", "U+FF4E",
      "U+FF4F", "U+FF50", "U+FF51", "U+FF52", "U+FF53", "U+FF54", "U+FF55", "U+FF56", "U+FF57",
      "U+FF58", "U+FF59", "U+FF5A", "U+10428", "U+10429", "U+1042A", "U+1042B", "U+1042C",
      "U+1042D", "U+1042E", "U+1042F", "U+10430", "U+10431", "U+10432", "U+10433", "U+10434",
      "U+10435", "U+10436", "U+10437", "U+10438", "U+10439", "U+1043A", "U+1043B", "U+1043C",
      "U+1043D", "U+1043E", "U+1043F", "U+10440", "U+10441", "U+10442", "U+10443", "U+10444",
      "U+10445", "U+10446", "U+10447", "U+10448", "U+10449", "U+1044A", "U+1044B", "U+1044C",
      "U+1044D", "U+1044E", "U+1044F", "U+104D8", "U+104D9", "U+104DA", "U+104DB", "U+104DC",
      "U+104DD", "U+104DE", "U+104DF", "U+104E0", "U+104E1", "U+104E2", "U+104E3", "U+104E4",
      "U+104E5", "U+104E6", "U+104E7", "U+104E8", "U+104E9", "U+104EA", "U+104EB", "U+104EC",
      "U+104ED", "U+104EE", "U+104EF", "U+104F0", "U+104F1", "U+104F2", "U+104F3", "U+104F4",
      "U+104F5", "U+104F6", "U+104F7", "U+104F8", "U+104F9", "U+104FA", "U+104FB", "U+10597",
      "U+10598", "U+10599", "U+1059A", "U+1059B", "U+1059C", "U+1059D", "U+1059E", "U+1059F",
      "U+105A0", "U+105A1", "U+105A3", "U+105A4", "U+105A5", "U+105A6", "U+105A7", "U+105A8",
      "U+105A9", "U+105AA", "U+105AB", "U+105AC", "U+105AD", "U+105AE", "U+105AF", "U+105B0",
      "U+105B1", "U+105B3", "U+105B4", "U+105B5", "U+105B6", "U+105B7", "U+105B8", "U+105B9",
      "U+105BB", "U+105BC", "U+10CC0", "U+10CC1", "U+10CC2", "U+10CC3", "U+10CC4", "U+10CC5",
      "U+10CC6", "U+10CC7", "U+10CC8", "U+10CC9", "U+10CCA", "U+10CCB", "U+10CCC", "U+10CCD",
      "U+10CCE", "U+10CCF", "U+10CD0", "U+10CD1", "U+10CD2", "U+10CD3", "U+10CD4", "U+10CD5",
      "U+10CD6", "U+10CD7", "U+10CD8", "U+10CD9", "U+10CDA", "U+10CDB", "U+10CDC", "U+10CDD",
      "U+10CDE", "U+10CDF", "U+10CE0", "U+10CE1", "U+10CE2", "U+10CE3", "U+10CE4", "U+10CE5",
      "U+10CE6", "U+10CE7", "U+10CE8", "U+10CE9", "U+10CEA", "U+10CEB", "U+10CEC", "U+10CED",
      "U+10CEE", "U+10CEF", "U+10CF0", "U+10CF1", "U+10CF2", "U+118C0", "U+118C1", "U+118C2",
      "U+118C3", "U+118C4", "U+118C5", "U+118C6", "U+118C7", "U+118C8", "U+118C9", "U+118CA",
      "U+118CB", "U+118CC", "U+118CD", "U+118CE", "U+118CF", "U+118D0", "U+118D1", "U+118D2",
      "U+118D3", "U+118D4", "U+118D5", "U+118D6", "U+118D7", "U+118D8", "U+118D9", "U+118DA",
      "U+118DB", "U+118DC", "U+118DD", "U+118DE", "U+118DF", "U+16E60", "U+16E61", "U+16E62",
      "U+16E63", "U+16E64", "U+16E65", "U+16E66", "U+16E67", "U+16E68", "U+16E69", "U+16E6A",
      "U+16E6B", "U+16E6C", "U+16E6D", "U+16E6E", "U+16E6F", "U+16E70", "U+16E71", "U+16E72",
      "U+16E73", "U+16E74", "U+16E75", "U+16E76", "U+16E77", "U+16E78", "U+16E79", "U+16E7A",
      "U+16E7B", "U+16E7C", "U+16E7D", "U+16E7E", "U+16E7F", "U+1E922", "U+1E923", "U+1E924",
      "U+1E925", "U+1E926", "U+1E927", "U+1E928", "U+1E929", "U+1E92A", "U+1E92B", "U+1E92C",
      "U+1E92D", "U+1E92E", "U+1E92F", "U+1E930", "U+1E931", "U+1E932", "U+1E933", "U+1E934",
      "U+1E935", "U+1E936", "U+1E937", "U+1E938", "U+1E939", "U+1E93A", "U+1E93B", "U+1E93C",
      "U+1E93D", "U+1E93E", "U+1E93F", "U+1E940", "U+1E941", "U+1E942", "U+1E943">>

\* the characters with the property Cased that are not Case_Ignorable
Cased ==
    {
      "A", "B", "C", "D", "E", "F", "G", "H", "I", "J", "K", "L", "M", "N", "O", "P", "Q", "R",
      "S", "T", "U", "V", "W", "X", "Y", "Z", "a", "b", "c", "d", "e", "f", "g", "h", "i", "j",
      "k", "l", "m", "n", "o", "p", "q", "r", "s", "t", "u", "v", "w", "x", "y", "z", "U+00AA",
      "U+00B5", "U+00BA", "À", "Á", "Â", "Ã", "U+00C4", "U+00C5", "U+00C6", "U+00C7", "È", "É",
      "Ê", "U+00CB", "Ì", "Í", "U+00CE", "U+00CF", "U+00D0", "U+00D1", "Ò", "Ó", "Ô", "Õ",
      "U+00D6", "U+00D8", "Ù", "Ú", "U+00DB", "U+00DC", "Ý", "U+00DE", "U+00DF", "à", "á", "â",
      "ã", "U+00E4", "U+00E5", "U+00E6", "U+00E7", "è", "é", "ê", "U+00EB", "ì", "í", "U+00EE",
      "U+00EF", "U+00F0", "U+00F1", "ò", "ó", "ô", "õ", "U+00F6", "U+00F8", "ù", "ú", "U+00FB",
      "U+00FC", "ý", "U+00FE", "U+00FF", "U+0100", "U+0101", "U+0102", "U+0103", "U+0104",
      "U+0105", "U+0106", "U+0107", "U+0108", "U+0109", "U+010A", "U+010B", "U+010C", "U+010D",
      "U+010E", "U+010F", "U+0110", "U+0111", "U+0112", "U+0113", "U+0114", "U+0115", "U+0116",
      "U+0117", "U+0118", "U+0119", "U+011A", "U+011B", "U+011C", "U+011D", "U+011E", "U+011F",
      "U+0120", "U+0121", "U+0122", "U+0123", "U+0124", "U+0125", "U+0126", "U+0127", "U+0128",
      "U+0129", "U+012A", "U+012B", "U+012C", "U+012D", "U+012E", "U+012F", "U+0130", "U+0131",
      "U+0132", "U+0133", "U+0134", "U+0135", "U+0136", "U+0137", "U+0138", "U+0139", "U+013A",
      "U+013B", "U+013C", "U+013D", "U+013E", "U+013F", "U+0140", "U+0141", "U+0142", "U+0143",
      "U+0144", "U+0145", "U+0146", "U+0147", "U+0148", "U+0149", "U+014A", "U+014B", "U+014C",
      "U+014D", "U+014E", "U+014F", "U+0150", "U+0151", "U+0152", "U+0153", "U+0154", "U+0155",
      "U+0156", "U+0157", "U+0158", "U+0159", "U+015A", "U+015B", "U+015C", "U+015D", "U+015E",
      "U+015F", "U+0160", "U+0161", "U+0162", "U+0163", "U+0164", "U+0165", "U+0166", "U+0167",
      "U+0168", "U+0169", "U+016A", "U+016B", "U+016C", "U+016D", "U+016E", "U+016F", "U+0170",
      "U+0171", "U+0172", "U+0173", "U+0174", "U+0175", "U+0176", "U+0177", "U+0178", "U+0179",
      "U+017A", "U+017B", "U+017C", "U+017D", "U+017E", "U+017F", "U+0180", "U+0181", "U+0182",
      "U+0183", "U+0184", "U+0185", "U+0186", "U+0187", "U+0188", "U+0189", "U+018A", "U+018B",
      "U+018C", "U+018D", "U+018E", "U+018F", "U+0190", "U+0191", "U+0192", "U+0193", "U+0194",
      "U+0195", "U+0196", "U+0197", "U+0198", "U+0199", "U+019A", "U+019B", "U+019C", "U+019D",
      "U+019E", "U+019F", "Ơ", "ơ", "U+01A2", "U+01A3", "U+01A4", "U+01A5", "U+01A6", "U+01A7",
      "U+01A8", "U+01A9", "U+01AA", "U+01AB", "U+01AC", "U+01AD", "U+01AE", "Ư", "ư", "U+01B1",
      "U+01B2", "U+01B3", "U+01B4", "U+01B5", "U+01B6", "U+01B7", "U+01B8", "U+01B9", "U+01BA",
      "U+01BC", "U+01BD", "U+01BE", "U+01BF", "U+01C4", "U+01C5", "U+01C6", "U+01C7", "U+01C8",
      "U+01C9", "U+01CA", "U+01CB", "U+01CC", "U+01CD", "U+01CE", "U+01CF", "U+01D0", "U+01D1",
      "U+01D2", "U+01D3", "U+01D4", "U+01D5", "U+01D6", "U+01D7", "U+01D8", "U+01D9", "U+01DA",
      "U+01DB", "U+01DC", "U+01DD", "U+01DE", "U+01DF", "U+01E0", "U+01E1", "U+01E2", "U+01E3",
      "U+01E4", "U+01E5", "U+01E6", "U+01E7", "U+01E8", "U+01E9", "U+01EA", "U+01EB", "U+01EC",
      "U+01ED", "U+01EE", "U+01EF", "U+01F0", "U+01F1", "U+01F2", "U+01F3", "U+01F4", "U+01F5",
      "U+01F6", "U+01F7", "U+01F8", "U+01F9", "U+01FA", "U+01FB", "U+01FC", "U+01FD", "U+01FE",
      "U+01FF", "U+0200", "U+0201", "U+0202", "U+0203", "U+0204", "U+0205", "U+0206", "U+0207",
      "U+0208", "U+0209", "U+020A", "U+020B", "U+020C", "U+020D", "U+020E", "U+020F", "U+0210",
      "U+0211", "U+0212", "U+0213", "U+0214", "U+0215", "U+0216", "U+0217", "U+0218", "U+0219",
      "U+021A", "U+021B", "U+021C", "U+021D", "U+021E", "U+021F", "U+0220", "U+0221", "U+0222",
      "U+0223", "U+0224", "U+0225", "U+0226", "U+0227", "U+0228", "U+0229", "U+022A", "U+022B",
      "U+022C", "U+022D", "U+022E", "U+022F", "U+0230", "U+0231", "U+0232", "U+0233", "U+0234",
      "U+0235", "U+0236", "U+0237", "U+0238", "U+0239", "U+023A", "U+023B", "U+023C", "U+023D",
      "U+023E", "U+023F", "U+0240", "U+0241", "U+0242", "U+0243", "U+0244", "U+0245", "U+0246",
      "U+0247", "U+0248", "U+0249", "U+024A", "U+024B", "U+024C", "U+024D", "U+024E", "U+024F",
      "U+0250", "U+0251", "U+0252", "U+0253", "U+0254", "U+0255", "U+0256", "U+0257", "U+0258",
      "U+0259", "U+025A", "U+025B", "U+025C", "U+025D", "U+025E", "U+025F", "U+0260", "U+0261",
      "U+0262", "U+0263", "U+0264", "U+0265", "U+0266", "U+0267", "U+0268", "U+0269", "U+026A",
      "U+026B", "U+026C", "U+026D", "U+026E", "U+026F", "U+0270", "U+0271", "U+0272", "U+0273",
      "U+0274", "U+0275", "U+0276", "U+0277", "U+0278", "U+0279", "U+027A", "U+027B", "U+027C",
      "U+027D", "U+027E", "U+027F", "U+0280", "U+0281", "U+0282", "U+0283", "U+0284", "U+0285",
      "U+0286", "U+0287", "U+0288", "U+0289", "U+028A", "U+028B", "U+028C", "U+028D", "U+028E",
      "U+028F", "U+0290", "U+0291", "U+0292", "U+0293", "U+0295", "U+0296", "U+0297", "U+0298",
      "U+0299", "U+029A", "U+029B", "U+029C", "U+029D", "U+029E", "U+029F", "U+02A0", "U+02A1",
      "U+02A2", "U+02A3", "U+02A4", "U+02A5", "U+02A6", "U+02A7", "U+02A8", "U+02A9", "U+02AA",
      "U+02AB", "U+02AC", "U+02AD", "U+02AE", "U+02AF", "U+0370", "U+0371", "U+0372", "U+0373",
      "U+0376", "U+0377", "U+037B", "U+037C", "U+037D", "U+037F", "U+0386", "U+0388", "U+0389",
      "U+038A", "U+038C", "U+038E", "U+038F", "U+0390", "U+0391", "U+0392", "U+0393", "U+0394",
      "U+0395", "U+0396", "U+0397", "U+0398", "U+0399", "U+039A", "U+039B", "U+039C", "U+039D",
      "U+039E", "U+039F", "U+03A0", "U+03A1", "U+03A4", "U+03A5", "U+03A6", "U+03A7", "U+03A8",
      "U+03A9", "U+03AA", "U+03AB", "U+03AC", "U+03AD", "U+03AE", "U+03AF", "U+03B0", "U+03B1",
      "U+03B2", "U+03B3", "U+03B4", "U+03B5", "U+03B6", "U+03B7", "U+03B8", "U+03B9", "U+03BA",
      "U+03BB", "U+03BC", "U+03BD", "U+03BE", "U+03BF", "U+03C0", "U+03C1", "U+03C2", "U+03C3",
      "U+03C4", "U+03C5", "U+03C6", "U+03C7", "U+03C8", "U+03C9", "U+03CA", "U+03CB", "U+03CC",
      "U+03CD", "U+03CE", "U+03CF", "U+03D0", "U+03D1", "U+03D2", "U+03D3", "U+03D4", "U+03D5",
      "U+03D6", "U+03D7", "U+03D8", "U+03D9", "U+03DA", "U+03DB", "U+03DC", "U+03DD", "U+03DE",
      "U+03DF", "U+03E0", "U+03E1", "U+03E2", "U+03E3", "U+03E4", "U+03E5", "U+03E6", "U+03E7",
      "U+03E8", "U+03E9", "U+03EA", "U+03EB", "U+03EC", "U+03ED", "U+03EE", "U+03EF", "U+03F0",
      "U+03F1", "U+03F2", "U+03F3", "U+03F4", "U+03F5", "U+03F7", "U+03F8", "U+03F9", "U+03FA",
      "U+03FB", "U+03FC", "U+03FD", "U+03FE", "U+03FF", "U+0400", "U+0401", "U+0402", "U+0403",
      "U+0404", "U+0405", "U+0406", "U+0407", "U+0408", "U+0409", "U+040A", "U+040B", "U+040C",
      "U+040D", "U+040E", "U+040F", "U+0410", "U+0411", "U+0412", "U+0413", "U+0414", "U+0415",
      "U+0416", "U+0417", "U+0418", "U+0419", "U+041A", "U+041B", "U+041C", "U+041D", "U+041E",
      "U+041F", "U+0420", "U+0421", "U+0422", "U+0423", "U+0424", "U+0425", "U+0426", "U+0427",
      "U+0428", "U+0429", "U+042A", "U+042B", "U+042C", "U+042D", "U+042E", "U+042F", "U+0430",
      "U+0431", "U+0432", "U+0433", "U+0434", "U+0435", "U+0436", "U+0437", "U+0438", "U+0439",
      "U+043A", "U+043B", "U+043C", "U+043D", "U+043E", "U+043F", "U+0440", "U+0441", "U+0442",
      "U+0443", "U+0444", "U+0445", "U+0446", "U+0447", "U+0448", "U+0449", "U+044A", "U+044B",
      "U+044C", "U+044D", "U+044E", "U+044F", "U+0450", "U+0451", "U+0452", "U+0453", "U+0454",
      "U+0455", "U+0456", "U+0457", "U+0458", "U+0459", "U+045A", "U+045B", "U+045C", "U+045D",
      "U+045E", "U+045F", "U+0460", "U+0461", "U+0462", "U+0463", "U+0464", "U+0465", "U+0466",
      "U+0467", "U+0468", "U+0469", "U+046A", "U+046B", "U+046C", "U+046D", "U+046E", "U+046F",
      "U+0470", "U+0471", "U+0472", "U+0473", "U+0474", "U+0475", "U+0476", "U+0477", "U+0478",
      "U+0479", "U+047A", "U+047B", "U+047C", "U+047D", "U+047E", "U+047F", "U+0480", "U+0481",
      "U+048A", "U+048B", "U+048C", "U+048D", "U+048E", "U+048F", "U+0490", "U+0491", "U+0492",
      "U+0493", "U+0494", "U+0495", "U+0496", "U+0497", "U+0498", "U+0499", "U+049A", "U+049B",
      "U+049C", "U+049D", "U+049E", "U+049F", "U+04A0", "U+04A1", "U+04A2", "U+04A3", "U+04A4",
      "U+04A5", "U+04A6", "U+04A7", "U+04A8", "U+04A9", "U+04AA", "U+04AB", "U+04AC", "U+04AD",
      "U+04AE", "U+04AF", "U+04B0", "U+04B1", "U+04B2", "U+04B3", "U+04B4", "U+04B5", "U+04B6",
      "U+04B7", "U+04B8", "U+04B9", "U+04BA", "U+04BB", "U+04BC", "U+04BD", "U+04BE", "U+04BF",
      "U+04C0", "U+04C1", "U+04C2", "U+04C3", "U+04C4", "U+04C5", "U+04C6", "U+04C7", "U+04C8",
      "U+04C9", "U+04CA", "U+04CB", "U+04CC", "U+04CD", "U+04CE", "U+04CF", "U+04D0", "U+04D1",
      "U+04D2", "U+04D3", "U+04D4", "U+04D5", "U+04D6", "U+04D7", "U+04D8", "U+04D9", "U+04DA",
      "U+04DB", "U+04DC", "U+04DD", "U+04DE", "U+04DF", "U+04E0", "U+04E1", "U+04E2", "U+04E3",
      "U+04E4", "U+04E5", "U+04E6", "U+04E7", "U+04E8", "U+04E9", "U+04EA", "U+04EB", "U+04EC",
      "U+04ED", "U+04EE", "U+04EF", "U+04F0", "U+04F1", "U+04F2", "U+04F3", "U+04F4", "U+04F5",
      "U+04F6", "U+04F7", "U+04F8", "U+04F9", "U+04FA", "U+04FB", "U+04FC", "U+04FD", "U+04FE",
      "U+04FF", "U+0500", "U+0501", "U+0502", "U+0503", "U+0504", "U+0505", "U+0506", "U+0507",
      "U+0508", "U+0509", "U+050A", "U+050B", "U+050C", "U+050D", "U+050E", "U+050F", "U+0510",
      "U+0511", "U+0512", "U+0513", "U+0514", "U+0515", "U+0516", "U+0517", "U+0518", "U+0519",
      "U+051A", "U+051B", "U+051C", "U+051D", "U+051E", "U+051F", "U+0520", "U+0521", "U+0522",
      "U+0523", "U+0524", "U+0525", "U+0526", "U+0527", "U+0528", "U+0529", "U+052A", "U+052B",
      "U+052C", "U+052D", "U+052E", "U+052F", "U+0531", "U+0532", "U+0533", "U+0534", "U+0535",
      "U+0536", "U+0537", "U+0538", "U+0539", "U+053A", "U+053B", "U+053C", "U+053D", "U+053E",
      "U+053F", "U+0540", "U+0541", "U+0542", "U+0543", "U+0544", "U+0545", "U+0546", "U+0547",
      "U+0548", "U+0549", "U+054A", "U+054B", "U+054C", "U+054D", "U+054E", "U+054F", "U+0550",
      "U+0551", "U+0552", "U+0553", "U+0554", "U+0555", "U+0556", "U+0560", "U+0561", "U+0562",
      "U+0563", "U+0564", "U+0565", "U+0566", "U+0567", "U+0568", "U+0569", "U+056A", "U+056B",
      "U+056C", "U+056D", "U+056E", "U+056F", "U+0570", "U+0571", "U+0572", "U+0573", "U+0574",
      "U+0575", "U+0576", "U+0577", "U+0578", "U+0579", "U+057A", "U+057B", "U+057C", "U+057D",
      "U+057E", "U+057F", "U+0580", "U+0581", "U+0582", "U+0583", "U+0584", "U+0585", "U+0586",
      "U+0587", "U+0588", "U+10A0", "U+10A1", "U+10A2", "U+10A3", "U+10A4", "U+10A5", "U+10A6",
      "U+10A7", "U+10A8", "U+10A9", "U+10AA", "U+10AB", "U+10AC", "U+10AD", "U+10AE", "U+10AF",
      "U+10B0", "U+10B1", "U+10B2", "U+10B3", "U+10B4", "U+10B5", "U+10B6", "U+10B7", "U+10B8",
      "U+10B9", "U+10BA", "U+10BB", "U+10BC", "U+10BD", "U+10BE", "U+10BF", "U+10C0", "U+10C1",
      "U+10C2", "U+10C3", "U+10C4", "U+10C5", "U+10C7", "U+10CD", "U+10D0", "U+10D1", "U+10D2",
      "U+10D3", "U+10D4", "U+10D5", "U+10D6", "U+10D7", "U+10D8", "U+10D9", "U+10DA", "U+10DB",
      "U+10DC", "U+10DD", "U+10DE", "U+10DF", "U+10E0", "U+10E1", "U+10E2", "U+10E3", "U+10E4",
      "U+10E5", "U+10E6", "U+10E7", "U+10E8", "U+10E9", "U+10EA", "U+10EB", "U+10EC", "U+10ED",
      "U+10EE", "U+10EF", "U+10F0", "U+10F1", "U+10F2", "U+10F3", "U+10F4", "U+10F5", "U+10F6",
      "U+10F7", "U+10F8", "U+10F9", "U+10FA", "U+10FD", "U+10FE", "U+10FF", "U+13A0", "U+13A1",
      "U+13A2", "U+13A3", "U+13A4", "U+13A5", "U+13A6", "U+13A7", "U+13A8", "U+13A9", "U+13AA",
      "U+13AB", "U+13AC", "U+13AD", "U+13AE", "U+13AF", "U+13B0", "U+13B1", "U+13B2", "U+13B3",
      "U+13B4", "U+13B5", "U+13B6", "U+13B7", "U+13B8", "U+13B9", "U+13BA", "U+13BB", "U+13BC",
      "U+13BD", "U+13BE", "U+13BF", "U+13C0", "U+13C1", "U+13C2", "U+13C3", "U+13C4", "U+13C5",
      "U+13C6", "U+13C7", "U+13C8", "U+13C9", "U+13CA", "U+13CB", "U+13CC", "U+13CD", "U+13CE",
      "U+13CF", "U+13D0", "U+13D1", "U+13D2", "U+13D3", "U+13D4", "U+13D5", "U+13D6", "U+13D7",
      "U+13D8", "U+13D9", "U+13DA", "U+13DB", "U+13DC", "U+13DD", "U+13DE", "U+13DF", "U+13E0",
      "U+13E1", "U+13E2", "U+13E3", "U+13E4", "U+13E5", "U+13E6", "U+13E7", "U+13E8", "U+13E9",
      "U+13EA", "U+13EB", "U+13EC", "U+13ED", "U+13EE", "U+13EF", "U+13F0", "U+13F1", "U+13F2",
      "U+13F3", "U+13F4", "U+13F5", "U+13F8", "U+13F9", "U+13FA", "U+13FB", "U+13FC", "U+13FD",
      "U+1C80", "U+1C81", "U+1C82", "U+1C83", "U+1C84", "U+1C85", "U+1C86", "U+1C87", "U+1C88",
      "U+1C90", "U+1C91", "U+1C92", "U+1C93", "U+1C94", "U+1C95", "U+1C96", "U+1C97", "U+1C98",
      "U+1C99", "U+1C9A", "U+1C9B", "U+1C9C", "U+1C9D", "U+1C9E", "U+1C9F", "U+1CA0", "U+1CA1",
      "U+1CA2", "U+1CA3", "U+1CA4", "U+1CA5", "U+1CA6", "U+1CA7", "U+1CA8", "U+1CA9", "U+1CAA",
      "U+1CAB", "U+1CAC", "U+1CAD", "U+1CAE", "U+1CAF", "U+1CB0", "U+1CB1", "U+1CB2", "U+1CB3",
      "U+1CB4", "U+1CB5", "U+1CB6", "U+1CB7", "U+1CB8", "U+1CB9", "U+1CBA", "U+1CBD", "U+1CBE",
      "U+1CBF", "U+1D00", "U+1D01", "U+1D02", "U+1D03", "U+1D04", "U+1D05", "U+1D06", "U+1D07",
      "U+1D08", "U+1D09", "U+1D0A", "U+1D0B", "U+1D0C", "U+1D0D", "U+1D0E", "U+1D0F", "U+1D10",
      "U+1D11", "U+1D12", "U+1D13", "U+1D14", "U+1D15", "U+1D16", "U+1D17", "U+1D18", "U+1D19",
      "U+1D1A", "U+1D1B", "U+1D1C", "U+1D1D", "U+1D1E", "U+1D1F", "U+1D20", "U+1D21", "U+1D22",
      "U+1D23", "U+1D24", "U+1D25", "U+1D26", "U+1D27", "U+1D28", "U+1D29", "U+1D2A", "U+1D2B",
      "U+1D6B", "U+1D6C", "U+1D6D", "U+1D6E", "U+1D6F", "U+1D70", "U+1D71", "U+1D72", "U+1D73",
      "U+1D74", "U+1D75", "U+1D76", "U+1D77", "U+1D79", "U+1D7A", "U+1D7B", "U+1D7C", "U+1D7D",
      "U+1D7E", "U+1D7F", "U+1D80", "U+1D81", "U+1D82", "U+1D83", "U+1D84", "U+1D85", "U+1D86",
      "U+1D87", "U+1D88", "U+1D89", "U+1D8A", "U+1D8B", "U+1D8C", "U+1D8D", "U+1D8E", "U+1D8F",
      "U+1D90", "U+1D91", "U+1D92", "U+1D93", "U+1D94", "U+1D95", "U+1D96", "U+1D97", "U+1D98",
      "U+1D99", "U+1D9A", "U+1E00", "U+1E01", "U+1E02", "U+1E03", "U+1E04", "U+1E05", "U+1E06",
      "U+1E07", "U+1E08", "U+1E09", "U+1E0A", "U+1E0B", "U+1E0C", "U+1E0D", "U+1E0E", "U+1E0F",
      "U+1E10", "U+1E11", "U+1E12", "U+1E13", "U+1E14", "U+1E15", "U+1E16", "U+1E17", "U+1E18",
      "U+1E19", "U+1E1A", "U+1E1B", "U+1E1C", "U+1E1D", "U+1E1E", "U+1E1F", "U+1E20", "U+1E21",
      "U+1E22", "U+1E23", "U+1E24", "U+1E25", "U+1E26", "U+1E27", "U+1E28", "U+1E29", "U+1E2A",
      "U+1E2B", "U+1E2C", "U+1E2D", "U+1E2E", "U+1E2F", "U+1E30", "U+1E31", "U+1E32", "U+1E33",
      "U+1E34", "U+1E35", "U+1E36", "U+1E37", "U+1E38", "U+1E39", "U+1E3A", "U+1E3B", "U+1E3C",
      "U+1E3D", "U+1E3E", "U+1E3F", "U+1E40", "U+1E41", "U+1E42", "U+1E43", "U+1E44", "U+1E45",
      "U+1E46", "U+1E47", "U+1E48", "U+1E49", "U+1E4A", "U+1E4B", "U+1E4C", "U+1E4D", "U+1E4E",
      "U+1E4F", "U+1E50", "U+1E51", "U+1E52", "U+1E53", "U+1E54", "U+1E55", "U+1E56", "U+1E57",
      "U+1E58", "U+1E59", "U+1E5A", "U+1E5B", "U+1E5C", "U+1E5D", "U+1E5E", "U+1E5F", "U+1E60",
      "U+1E61", "U+1E62", "U+1E63", "U+1E64", "U+1E65", "U+1E66", "U+1E67", "U+1E68", "U+1E69",
      "U+1E6A", "U+1E6B", "U+1E6C", "U+1E6D", "U+1E6E", "U+1E6F", "U+1E70", "U+1E71", "U+1E72",
      "U+1E73", "U+1E74", "U+1E75", "U+1E76", "U+1E77", "U+1E78", "U+1E79", "U+1E7A", "U+1E7B",
      "U+1E7C", "U+1E7D", "U+1E7E", "U+1E7F", "U+1E80", "U+1E81", "U+1E82", "U+1E83", "U+1E84",
      "U+1E85", "U+1E86", "U+1E87", "U+1E88", "U+1E89", "U+1E8A", "U+1E8B", "U+1E8C", "U+1E8D",
      "U+1E8E", "U+1E8F", "U+1E90", "U+1E91", "U+1E92", "U+1E93", "U+1E94", "U+1E95", "U+1E96",
      "U+1E97", "U+1E98", "U+1E99", "U+1E9A", "U+1E9B", "U+1E9C", "U+1E9D", "U+1E9E", "U+1E9F",
      "Ạ", "ạ", "Ả", "ả", "Ấ", "ấ", "Ầ", "ầ", "Ẩ", "ẩ", "Ẫ", "ẫ", "Ậ", "ậ", "Ắ", "ắ", "Ằ", "ằ",
      "Ẳ", "ẳ", "Ẵ", "ẵ", "Ặ", "ặ", "Ẹ", "ẹ", "Ẻ", "ẻ", "Ẽ", "ẽ", "Ế", "ế", "Ề", "ề", "Ể", "ể",
      "Ễ", "ễ", "Ệ", "ệ", "Ỉ", "ỉ", "Ị", "ị", "Ọ", "ọ", "Ỏ", "ỏ", "Ố", "ố", "Ồ", "ồ", "Ổ", "ổ",
      "Ỗ", "ỗ", "Ộ", "ộ", "Ớ", "ớ", "Ờ", "ờ", "Ở", "ở", "Ỡ", "ỡ", "Ợ", "ợ", "Ụ", "ụ", "Ủ", "ủ",
      "Ứ", "ứ", "Ừ", "ừ", "Ử", "ử", "Ữ", "ữ", "Ự", "ự", "Ỳ", "ỳ", "Ỵ", "ỵ", "Ỷ", "ỷ", "Ỹ", "ỹ",
      "U+1EFA", "U+1EFB", "U+1EFC", "U+1EFD", "U+1EFE", "U+1EFF", "U+1F00", "U+1F01", "U+1F02",
      "U+1F03", "U+1F04", "U+1F05", "U+1F06", "U+1F07", "U+1F08", "U+1F09", "U+1F0A", "U+1F0B",
      "U+1F0C", "U+1F0D", "U+1F0E", "U+1F0F", "U+1F10", "U+1F11", "U+1F12", "U+1F13", "U+1F14",
      "U+1F15", "U+1F18", "U+1F19", "U+1F1A", "U+1F1B", "U+1F1C", "U+1F1D", "U+1F20", "U+1F21",
      "U+1F22", "U+1F23", "U+1F24", "U+1F25", "U+1F26", "U+1F27", "U+1F28", "U+1F29", "U+1F2A",
      "U+1F2B", "U+1F2C", "U+1F2D", "U+1F2E", "U+1F2F", "U+1F30", "U+1F31", "U+1F32", "U+1F33",
      "U+1F34", "U+1F35", "U+1F36", "U+1F37", "U+1F38", "U+1F39", "U+1F3A", "U+1F3B", "U+1F3C",
      "U+1F3D", "U+1F3E", "U+1F3F", "U+1F40", "U+1F41", "U+1F42", "U+1F43", "U+1F44", "U+1F45",
      "U+1F48", "U+1F49", "U+1F4A", "U+1F4B", "U+1F4C", "U+1F4D", "U+1F50", "U+1F51", "U+1F52",
      "U+1F53", "U+1F54", "U+1F55", "U+1F56", "U+1F57", "U+1F59", "U+1F5B", "U+1F5D", "U+1F5F",
      "U+1F60", "U+1F61", "U+1F62", "U+1F63", "U+1F64", "U+1F65", "U+1F66", "U+1F67", "U+1F68",
      "U+1F69", "U+1F6A", "U+1F6B", "U+1F6C", "U+1F6D", "U+1F6E", "U+1F6F", "U+1F70", "U+1F71",
      "U+1F72", "U+1F73", "U+1F74", "U+1F75", "U+1F76", "U+1F77", "U+1F78", "U+1F79", "U+1F7A",
      "U+1F7B", "U+1F7C", "U+1F7D", "U+1F80", "U+1F81", "U+1F82", "U+1F83", "U+1F84", "U+1F85",
      "U+1F86", "U+1F87", "U+1F88", "U+1F89", "U+1F8A", "U+1F8B", "U+1F8C", "U+1F8D", "U+1F8E",
      "U+1F8F", "U+1F90", "U+1F91", "U+1F92", "U+1F93", "U+1F94", "U+1F95", "U+1F96", "U+1F97",
      "U+1F98", "U+1F99", "U+1F9A", "U+1F9B", "U+1F9C", "U+1F9D", "U+1F9E", "U+1F9F", "U+1FA0",
      "U+1FA1", "U+1FA2", "U+1FA3", "U+1FA4", "U+1FA5", "U+1FA6", "U+1FA7", "U+1FA8", "U+1FA9",
      "U+1FAA", "U+1FAB", "U+1FAC", "U+1FAD", "U+1FAE", "U+1FAF", "U+1FB0", "U+1FB1", "U+1FB2",
      "U+1FB3", "U+1FB4", "U+1FB6", "U+1FB7", "U+1FB8", "U+1FB9", "U+1FBA", "U+1FBB", "U+1FBC",
      "U+1FBE", "U+1FC2", "U+1FC3", "U+1FC4", "U+1FC6", "U+1FC7", "U+1FC8", "U+1FC9", "U+1FCA",
      "U+1FCB", "U+1FCC", "U+1FD0", "U+1FD1", "U+1FD2", "U+1FD3", "U+1FD6", "U+1FD7", "U+1FD8",
      "U+1FD9", "U+1FDA", "U+1FDB", "U+1FE0", "U+1FE1", "U+1FE2", "U+1FE3", "U+1FE4", "U+1FE5",
      "U+1FE6", "U+1FE7", "U+1FE8", "U+1FE9", "U+1FEA", "U+1FEB", "U+1FEC", "U+1FF2", "U+1FF3",
      "U+1FF4", "U+1FF6", "U+1FF7", "U+1FF8", "U+1FF9", "U+1FFA", "U+1FFB", "U+1FFC", "U+2102",
      "U+2107", "U+210A", "U+210B", "U+210C", "U+210D", "U+210E", "U+210F", "U+2110", "U+2111",
      "U+2112", "U+2113", "U+2115", "U+2119", "U+211A", "U+211B", "U+211C", "U+211D", "U+2124",
      "U+2126", "U+2128", "U+212A", "U+212B", "U+212C", "U+212D", "U+212F", "U+2130", "U+2131",
      "U+2132", "U+2133", "U+2134", "U+2139", "U+213C", "U+213D", "U+213E", "U+213F", "U+2145",
      "U+2146", "U+2147", "U+2148", "U+2149", "U+214E", "U+2160", "U+2161", "U+2162", "U+2163",
      "U+2164", "U+2165", "U+2166", "U+2167", "U+2168", "U+2169", "U+216A", "U+216B", "U+216C",
      "U+216D", "U+216E", "U+216F", "U+2170", "U+2171", "U+2172", "U+2173", "U+2174", "U+2175",
      "U+2176", "U+2177", "U+2178", "U+2179", "U+217A", "U+217B", "U+217C", "U+217D", "U+217E",
      "U+217F", "U+2183", "U+2184", "U+24B6", "U+24B7", "U+24B8", "U+24B9", "U+24BA", "U+24BB",
      "U+24BC", "U+24BD", "U+24BE", "U+24BF", "U+24C0", "U+24C1", "U+24C2", "U+24C3", "U+24C4",
      "U+24C5", "U+24C6", "U+24C7", "U+24C8", "U+24C9", "U+24CA", "U+24CB", "U+24CC", "U+24CD",
      "U+24CE", "U+24CF", "U+24D0", "U+24D1", "U+24D2", "U+24D3", "U+24D4", "U+24D5", "U+24D6",
      "U+24D7", "U+24D8", "U+24D9", "U+24DA", "U+24DB", "U+24DC", "U+24DD", "U+24DE", "U+24DF",
      "U+24E0", "U+24E1", "U+24E2", "U+24E3", "U+24E4", "U+24E5", "U+24E6", "U+24E7", "U+24E8",
      "U+24E9", "U+2C00", "U+2C01", "U+2C02", "U+2C03", "U+2C04", "U+2C05", "U+2C06", "U+2C07",
      "U+2C08", "U+2C09", "U+2C0A", "U+2C0B", "U+2C0C", "U+2C0D", "U+2C0E", "U+2C0F", "U+2C10",
      "U+2C11", "U+2C12", "U+2C13", "U+2C14", "U+2C15", "U+2C16", "U+2C17", "U+2C18", "U+2C19",
      "U+2C1A", "U+2C1B", "U+2C1C", "U+2C1D", "U+2C1E", "U+2C1F", "U+2C20", "U+2C21", "U+2C22",
      "U+2C23", "U+2C24", "U+2C25", "U+2C26", "U+2C27", "U+2C28", "U+2C29", "U+2C2A", "U+2C2B",
      "U+2C2C", "U+2C2D", "U+2C2E", "U+2C2F", "U+2C30", "U+2C31", "U+2C32", "U+2C33", "U+2C34",
      "U+2C35", "U+2C36", "U+2C37", "U+2C38", "U+2C39", "U+2C3A", "U+2C3B", "U+2C3C", "U+2C3D",
      "U+2C3E", "U+2C3F", "U+2C40", "U+2C41", "U+2C42", "U+2C43", "U+2C44", "U+2C45", "U+2C46",
      "U+2C47", "U+2C48", "U+2C49", "U+2C4A", "U+2C4B", "U+2C4C", "U+2C4D", "U+2C4E", "U+2C4F",
      "U+2C50", "U+2C51", "U+2C52", "U+2C53", "U+2C54", "U+2C55", "U+2C56", "U+2C57", "U+2C58",
      "U+2C59", "U+2C5A", "U+2C5B", "U+2C5C", "U+2C5D", "U+2C5E", "U+2C5F", "U+2C60", "U+2C61",
      "U+2C62", "U+2C63", "U+2C64", "U+2C65", "U+2C66", "U+2C67", "U+2C68", "U+2C69", "U+2C6A",
      "U+2C6B", "U+2C6C", "U+2C6D", "U+2C6E", "U+2C6F", "U+2C70", "U+2C71", "U+2C72", "U+2C73",
      "U+2C74", "U+2C75", "U+2C76", "U+2C77", "U+2C78", "U+2C79", "U+2C7A", "U+2C7B", "U+2C7E",
      "U+2C7F", "U+2C80", "U+2C81", "U+2C82", "U+2C83", "U+2C84", "U+2C85", "U+2C86", "U+2C87",
      "U+2C88", "U+2C89", "U+2C8A", "U+2C8B", "U+2C8C", "U+2C8D", "U+2C8E", "U+2C8F", "U+2C90",
      "U+2C91", "U+2C92", "U+2C93", "U+2C94", "U+2C95", "U+2C96", "U+2C97", "U+2C98", "U+2C99",
      "U+2C9A", "U+2C9B", "U+2C9C", "U+2C9D", "U+2C9E", "U+2C9F", "U+2CA0", "U+2CA1", "U+2CA2",
      "U+2CA3", "U+2CA4", "U+2CA5", "U+2CA6", "U+2CA7", "U+2CA8", "U+2CA9", "U+2CAA", "U+2CAB",
      "U+2CAC", "U+2CAD", "U+2CAE", "U+2CAF", "U+2CB0", "U+2CB1", "U+2CB2", "U+2CB3", "U+2CB4",
      "U+2CB5", "U+2CB6", "U+2CB7", "U+2CB8", "U+2CB9", "U+2CBA", "U+2CBB", "U+2CBC", "U+2CBD",
      "U+2CBE", "U+2CBF", "U+2CC0", "U+2CC1", "U+2CC2", "U+2CC3", "U+2CC4", "U+2CC5", "U+2CC6",
      "U+2CC7", "U+2CC8", "U+2CC9", "U+2CCA", "U+2CCB", "U+2CCC", "U+2CCD", "U+2CCE", "U+2CCF",
      "U+2CD0", "U+2CD1", "U+2CD2", "U+2CD3", "U+2CD4", "U+2CD5", "U+2CD6", "U+2CD7", "U+2CD8",
      "U+2CD9", "U+2CDA", "U+2CDB", "U+2CDC", "U+2CDD", "U+2CDE", "U+2CDF", "U+2CE0", "U+2CE1",
      "U+2CE2", "U+2CE3", "U+2CE4", "U+2CEB", "U+2CEC", "U+2CED", "U+2CEE", "U+2CF2", "U+2CF3",
      "U+2D00", "U+2D01", "U+2D02", "U+2D03", "U+2D04", "U+2D05", "U+2D06", "U+2D07", "U+2D08",
      "U+2D09", "U+2D0A", "U+2D0B", "U+2D0C", "U+2D0D", "U+2D0E", "U+2D0F", "U+2D10", "U+2D11",
      "U+2D12", "U+2D13", "U+2D14", "U+2D15", "U+2D16", "U+2D17", "U+2D18", "U+2D19", "U+2D1A",
      "U+2D1B", "U+2D1C", "U+2D1D", "U+2D1E", "U+2D1F", "U+2D20", "U+2D21", "U+2D22", "U+2D23",
      "U+2D24", "U+2D25", "U+2D27", "U+2D2D", "U+A640", "U+A641", "U+A642", "U+A643", "U+A644",
      "U+A645", "U+A646", "U+A647", "U+A648", "U+A649", "U+A64A", "U+A64B", "U+A64C", "U+A64D",
      "U+A64E", "U+A64F", "U+A650", "U+A651", "U+A652", "U+A653", "U+A654", "U+A655", "U+A656",
      "U+A657", "U+A658", "U+A659", "U+A65A", "U+A65B", "U+A65C", "U+A65D", "U+A65E", "U+A65F",
      "U+A660", "U+A661", "U+A662", "U+A663", "U+A664", "U+A665", "U+A666", "U+A667", "U+A668",
      "U+A669", "U+A66A", "U+A66B", "U+A66C", "U+A66D", "U+A680", "U+A681", "U+A682", "U+A683",
      "U+A684", "U+A685", "U+A686", "U+A687", "U+A688", "U+A689", "U+A68A", "U+A68B", "U+A68C",
      "U+A68D", "U+A68E", "U+A68F", "U+A690", "U+A691", "U+A692", "U+A693", "U+A694", "U+A695",
      "U+A696", "U+A697", "U+A698", "U+A699", "U+A69A", "U+A69B", "U+A722", "U+A723", "U+A724",
      "U+A725", "U+A726", "U+A727", "U+A728", "U+A729", "U+A72A", "U+A72B", "U+A72C", "U+A72D",
      "U+A72E", "U+A72F", "U+A730", "U+A731", "U+A732", "U+A733", "U+A734", "U+A735", "U+A736",
      "U+A737", "U+A738", "U+A739", "U+A73A", "U+A73B", "U+A73C", "U+A73D", "U+A73E", "U+A73F",
      "U+A740", "U+A741", "U+A742", "U+A743", "U+A744", "U+A745", "U+A746", "U+A747", "U+A748",
      "U+A749", "U+A74A", "U+A74B", "U+A74C", "U+A74D", "U+A74E", "U+A74F", "U+A750", "U+A751",
      "U+A752", "U+A753", "U+A754", "U+A755", "U+A756", "U+A757", "U+A758", "U+A759", "U+A75A",
      "U+A75B", "U+A75C", "U+A75D", "U+A75E", "U+A75F", "U+A760", "U+A761", "U+A762", "U+A763",
      "U+A764", "U+A765", "U+A766", "U+A767", "U+A768", "U+A769", "U+A76A", "U+A76B", "U+A76C",
      "U+A76D", "U+A76E", "U+A76F", "U+A771", "U+A772", "U+A773", "U+A774", "U+A775", "U+A776",
      "U+A777", "U+A778", "U+A779", "U+A77A", "U+A77B", "U+A77C", "U+A77D", "U+A77E", "U+A77F",
      "U+A780", "U+A781", "U+A782", "U+A783", "U+A784", "U+A785", "U+A786", "U+A787", "U+A78B",
      "U+A78C", "U+A78D", "U+A78E", "U+A790", "U+A791", "U+A792", "U+A793", "U+A794", "U+A795",
      "U+A796", "U+A797", "U+A798", "U+A799", "U+A79A", "U+A79B", "U+A79C", "U+A79D", "U+A79E",
      "U+A79F", "U+A7A0", "U+A7A1", "U+A7A2", "U+A7A3", "U+A7A4", "U+A7A5", "U+A7A6", "U+A7A7",
      "U+A7A8", "U+A7A9", "U+A7AA", "U+A7AB", "U+A7AC", "U+A7AD", "U+A7AE", "U+A7AF", "U+A7B0",
      "U+A7B1", "U+A7B2", "U+A7B3", "U+A7B4", "U+A7B5", "U+A7B6", "U+A7B7", "U+A7B8", "U+A7B9",
      "U+A7BA", "U+A7BB", "U+A7BC", "U+A7BD", "U+A7BE", "U+A7BF", "U+A7C0", "U+A7C1", "U+A7C2",
      "U+A7C3", "U+A7C4", "U+A7C5", "U+A7C6", "U+A7C7", "U+A7C8", "U+A7C9", "U+A7CA", "U+A7D0",
      "U+A7D1", "U+A7D3", "U+A7D5", "U+A7D6", "U+A7D7", "U+A7D8", "U+A7D9", "U+A7F5", "U+A7F6",
      "U+A7FA", "U+AB30", "U+AB31", "U+AB32", "U+AB33", "U+AB34", "U+AB35", "U+AB36", "U+AB37",
      "U+AB38", "U+AB39", "U+AB3A", "U+AB3B", "U+AB3C", "U+AB3D", "U+AB3E", "U+AB3F", "U+AB40",
      "U+AB41", "U+AB42", "U+AB43", "U+AB44", "U+AB45", "U+AB46", "U+AB47", "U+AB48", "U+AB49",
      "U+AB4A", "U+AB4B", "U+AB4C", "U+AB4D", "U+AB4E", "U+AB4F", "U+AB50", "U+AB51", "U+AB52",
      "U+AB53", "U+AB54", "U+AB55", "U+AB56", "U+AB57", "U+AB58", "U+AB59", "U+AB5A", "U+AB60",
      "U+AB61", "U+AB62", "U+AB63", "U+AB64", "U+AB65", "U+AB66", "U+AB67", "U+AB68", "U+AB70",
      "U+AB71", "U+AB72", "U+AB73", "U+AB74", "U+AB75", "U+AB76", "U+AB77", "U+AB78", "U+AB79",
      "U+AB7A", "U+AB7B", "U+AB7C", "U+AB7D", "U+AB7E", "U+AB7F", "U+AB80", "U+AB81", "U+AB82",
      "U+AB83", "U+AB84", "U+AB85", "U+AB86", "U+AB87", "U+AB88", "U+AB89", "U+AB8A", "U+AB8B",
      "U+AB8C", "U+AB8D", "U+AB8E", "U+AB8F", "U+AB90", "U+AB91", "U+AB92", "U+AB93", "U+AB94",
      "U+AB95", "U+AB96", "U+AB97", "U+AB98", "U+AB99", "U+AB9A", "U+AB9B", "U+AB9C", "U+AB9D",
      "U+AB9E", "U+AB9F", "U+ABA0", "U+ABA1", "U+ABA2", "U+ABA3", "U+ABA4", "U+ABA5", "U+ABA6",
      "U+ABA7", "U+ABA8", "U+ABA9", "U+ABAA", "U+ABAB", "U+ABAC", "U+ABAD", "U+ABAE", "U+ABAF",
      "U+ABB0", "U+ABB1", "U+ABB2", "U+ABB3", "U+ABB4", "U+ABB5", "U+ABB6", "U+ABB7", "U+ABB8",
      "U+ABB9", "U+ABBA", "U+ABBB", "U+ABBC", "U+ABBD", "U+ABBE", "U+ABBF", "U+FB00", "U+FB01",
      "U+FB02", "U+FB03", "U+FB04", "U+FB05", "U+FB06", "U+FB13", "U+FB14", "U+FB15", "U+FB16",
      "U+FB17", "U+FF21", "U+FF22", "U+FF23", "U+FF24", "U+FF25", "U+FF26", "U+FF27", "U+FF28",
      "U+FF29", "U+FF2A", "U+FF2B", "U+FF2C", "U+FF2D", "U+FF2E", "U+FF2F", "U+FF30", "U+FF31",
      "U+FF32", "U+FF33", "U+FF34", "U+FF35", "U+FF36", "U+FF37", "U+FF38", "U+FF39", "U+FF3A",
      "U+FF41", "U+FF42", "U+FF43", "U+FF44", "U+FF45", "U+FF46", "U+FF47", "U+FF48", "U+FF49",
      "U+FF4A", "U+FF4B", "U+FF4C", "U+FF4D", "U+FF4E", "U+FF4F", "U+FF50", "U+FF51", "U+FF52",
      "U+FF53", "U+FF54", "U+FF55", "U+FF56", "U+FF57", "U+FF58", "U+FF59", "U+FF5A", "U+10400",
      "U+10401", "U+10402", "U+10403", "U+10404", "U+10405", "U+10406", "U+10407", "U+10408",
      "U+10409", "U+1040A", "U+1040B", "U+1040C", "U+1040D", "U+1040E", "U+1040F", "U+10410",
      "U+10411", "U+10412", "U+10413", "U+10414", "U+10415", "U+10416", "U+10417", "U+10418",
      "U+10419", "U+1041A", "U+1041B", "U+1041C", "U+1041D", "U+1041E", "U+1041F", "U+10420",
      "U+10421", "U+10422", "U+10423", "U+10424", "U+10425", "U+10426", "U+10427", "U+10428",
      "U+10429", "U+1042A", "U+1042B", "U+1042C", "U+1042D", "U+1042E", "U+1042F", "U+10430",
      "U+10431", "U+10432", "U+10433", "U+10434", "U+10435", "U+10436", "U+10437", "U+10438",
      "U+10439", "U+1043A", "U+1043B", "U+1043C", "U+1043D", "U+1043E", "U+1043F", "U+10440",
      "U+10441", "U+10442", "U+10443", "U+10444", "U+10445", "U+10446", "U+10447", "U+10448",
      "U+10449", "U+1044A", "U+1044B", "U+1044C", "U+1044D", "U+1044E", "U+1044F", "U+104B0",
      "U+104B1", "U+104B2", "U+104B3", "U+104B4", "U+104B5", "U+104B6", "U+104B7", "U+104B8",
      "U+104B9", "U+104BA", "U+104BB", "U+104BC", "U+104BD", "U+104BE", "U+104BF", "U+104C0",
      "U+104C1", "U+104C2", "U+104C3", "U+104C4", "U+104C5", "U+104C6", "U+104C7", "U+104C8",
      "U+104C9", "U+104CA", "U+104CB", "U+104CC", "U+104CD", "U+104CE", "U+104CF", "U+104D0",
      "U+104D1", "U+104D2", "U+104D3", "U+104D8", "U+104D9", "U+104DA", "U+104DB", "U+104DC",
      "U+104DD", "U+104DE", "U+104DF", "U+104E0", "U+104E1", "U+104E2", "U+104E3", "U+104E4",
      "U+104E5", "U+104E6", "U+104E7", "U+104E8", "U+104E9", "U+104EA", "U+104EB", "U+104EC",
      "U+104ED", "U+104EE", "U+104EF", "U+104F0", "U+104F1", "U+104F2", "U+104F3", "U+104F4",
      "U+104F5", "U+104F6", "U+104F7", "U+104F8", "U+104F9", "U+104FA", "U+104FB", "U+10570",
      "U+10571", "U+10572", "U+10573", "U+10574", "U+10575", "U+10576", "U+10577", "U+10578",
      "U+10579", "U+1057A", "U+1057C", "U+1057D", "U+1057E", "U+1057F", "U+10580", "U+10581",
      "U+10582", "U+10583", "U+10584", "U+10585", "U+10586", "U+10587", "U+10588", "U+10589",
      "U+1058A", "U+1058C", "U+1058D", "U+1058E", "U+1058F", "U+10590", "U+10591", "U+10592",
      "U+10594", "U+10595", "U+10597", "U+10598", "U+10599", "U+1059A", "U+1059B", "U+1059C",
      "U+1059D", "U+1059E", "U+1059F", "U+105A0", "U+105A1", "U+105A3", "U+105A4", "U+105A5",
      "U+105A6", "U+105A7", "U+105A8", "U+105A9", "U+105AA", "U+105AB", "U+105AC", "U+105AD",
      "U+105AE", "U+105AF", "U+105B0", "U+105B1", "U+105B3", "U+105B4", "U+105B5", "U+105B6",
      "U+105B7", "U+105B8", "U+105B9", "U+105BB", "U+105BC", "U+10C80", "U+10C81", "U+10C82",
      "U+10C83", "U+10C84", "U+10C85", "U+10C86", "U+10C87", "U+10C88", "U+10C89", "U+10C8A",
      "U+10C8B", "U+10C8C", "U+10C8D", "U+10C8E", "U+10C8F", "U+10C90", "U+10C91", "U+10C92",
      "U+10C93", "U+10C94", "U+10C95", "U+10C96", "U+10C97", "U+10C98", "U+10C99", "U+10C9A",
      "U+10C9B", "U+10C9C", "U+10C9D", "U+10C9E", "U+10C9F", "U+10CA0", "U+10CA1", "U+10CA2",
      "U+10CA3", "U+10CA4", "U+10CA5", "U+10CA6", "U+10CA7", "U+10CA8", "U+10CA9", "U+10CAA",
      "U+10CAB", "U+10CAC", "U+10CAD", "U+10CAE", "U+10CAF", "U+10CB0", "U+10CB1", "U+10CB2",
      "U+10CC0", "U+10CC1", "U+10CC2", "U+10CC3", "U+10CC4", "U+10CC5", "U+10CC6", "U+10CC7",
      "U+10CC8", "U+10CC9", "U+10CCA", "U+10CCB", "U+10CCC", "U+10CCD", "U+10CCE", "U+10CCF",
      "U+10CD0", "U+10CD1", "U+10CD2", "U+10CD3", "U+10CD4", "U+10CD5", "U+10CD6", "U+10CD7",
      "U+10CD8", "U+10CD9", "U+10CDA", "U+10CDB", "U+10CDC", "U+10CDD", "U+10CDE", "U+10CDF",
      "U+10CE0", "U+10CE1", "U+10CE2", "U+10CE3", "U+10CE4", "U+10CE5", "U+10CE6", "U+10CE7",
      "U+10CE8", "U+10CE9", "U+10CEA", "U+10CEB", "U+10CEC", "U+10CED", "U+10CEE", "U+10CEF",
      "U+10CF0", "U+10CF1", "U+10CF2", "U+118A0", "U+118A1", "U+118A2", "U+118A3", "U+118A4",
      "U+118A5", "U+118A6", "U+118A7", "U+118A8", "U+118A9", "U+118AA", "U+118AB", "U+118AC",
      "U+118AD", "U+118AE", "U+118AF", "U+118B0", "U+118B1", "U+118B2", "U+118B3", "U+118B4",
      "U+118B5", "U+118B6", "U+118B7", "U+118B8", "U+118B9", "U+118BA", "U+118BB", "U+118BC",
      "U+118BD", "U+118BE", "U+118BF", "U+118C0", "U+118C1", "U+118C2", "U+118C3", "U+118C4",
      "U+118C5", "U+118C6", "U+118C7", "U+118C8", "U+118C9", "U+118CA", "U+118CB", "U+118CC",
      "U+118CD", "U+118CE", "U+118CF", "U+118D0", "U+118D1", "U+118D2", "U+118D3", "U+118D4",
      "U+118D5", "U+118D6", "U+118D7", "U+118D8", "U+118D9", "U+118DA", "U+118DB", "U+118DC",
      "U+118DD", "U+118DE", "U+118DF", "U+16E40", "U+16E41", "U+16E42", "U+16E43", "U+16E44",
      "U+16E45", "U+16E46", "U+16E47", "U+16E48", "U+16E49", "U+16E4A", "U+16E4B", "U+16E4C",
      "U+16E4D", "U+16E4E", "U+16E4F", "U+16E50", "U+16E51", "U+16E52", "U+16E53", "U+16E54",
      "U+16E55", "U+16E56", "U+16E57", "U+16E58", "U+16E59", "U+16E5A", "U+16E5B", "U+16E5C",
      "U+16E5D", "U+16E5E", "U+16E5F", "U+16E60", "U+16E61", "U+16E62", "U+16E63", "U+16E64",
      "U+16E65", "U+16E66", "U+16E67", "U+16E68", "U+16E69", "U+16E6A", "U+16E6B", "U+16E6C",
      "U+16E6D", "U+16E6E", "U+16E6F", "U+16E70", "U+16E71", "U+16E72", "U+16E73", "U+16E74",
      "U+16E75", "U+16E76", "U+16E77", "U+16E78", "U+16E79", "U+16E7A", "U+16E7B", "U+16E7C",
      "U+16E7D", "U+16E7E", "U+16E7F", "U+1D400", "U+1D401", "U+1D402", "U+1D403", "U+1D404",
      "U+1D405", "U+1D406", "U+1D407", "U+1D408", "U+1D409", "U+1D40A", "U+1D40B", "U+1D40C",
      "U+1D40D", "U+1D40E", "U+1D40F", "U+1D410", "U+1D411", "U+1D412", "U+1D413", "U+1D414",
      "U+1D415", "U+1D416", "U+1D417", "U+1D418", "U+1D419", "U+1D41A", "U+1D41B", "U+1D41C",
      "U+1D41D", "U+1D41E", "U+1D41F", "U+1D420", "U+1D421", "U+1D422", "U+1D423", "U+1D424",
      "U+1D425", "U+1D426", "U+1D427", "U+1D428", "U+1D429", "U+1D42A", "U+1D42B", "U+1D42C",
      "U+1D42D", "U+1D42E", "U+1D42F", "U+1D430", "U+1D431", "U+1D432", "U+1D433", "U+1D434",
      "U+1D435", "U+1D436", "U+1D437", "U+1D438", "U+1D439", "U+1D43A", "U+1D43B", "U+1D43C",
      "U+1D43D", "U+1D43E", "U+1D43F", "U+1D440", "U+1D441", "U+1D442", "U+1D443", "U+1D444",
      "U+1D445", "U+1D446", "U+1D447", "U+1D448", "U+1D449", "U+1D44A", "U+1D44B", "U+1D44C",
      "U+1D44D", "U+1D44E", "U+1D44F", "U+1D450", "U+1D451", "U+1D452", "U+1D453", "U+1D454",
      "U+1D456", "U+1D457", "U+1D458", "U+1D459", "U+1D45A", "U+1D45B", "U+1D45C", "U+1D45D",
      "U+1D45E", "U+1D45F", "U+1D460", "U+1D461", "U+1D462", "U+1D463", "U+1D464", "U+1D465",
      "U+1D466", "U+1D467", "U+1D468", "U+1D469", "U+1D46A", "U+1D46B", "U+1D46C", "U+1D46D",
      "U+1D46E", "U+1D46F", "U+1D470", "U+1D471", "U+1D472", "U+1D473", "U+1D474", "U+1D475",
      "U+1D476", "U+1D477", "U+1D478", "U+1D479", "U+1D47A", "U+1D47B", "U+1D47C", "U+1D47D",
      "U+1D47E", "U+1D47F", "U+1D480", "U+1D481", "U+1D482", "U+1D483", "U+1D484", "U+1D485",
      "U+1D486", "U+1D487", "U+1D488", "U+1D489", "U+1D48A", "U+1D48B", "U+1D48C", "U+1D48D",
      "U+1D48E", "U+1D48F", "U+1D490", "U+1D491", "U+1D492", "U+1D493", "U+1D494", "U+1D495",
      "U+1D496", "U+1D497", "U+1D498", "U+1D499", "U+1D49A", "U+1D49B", "U+1D49C", "U+1D49E",
      "U+1D49F", "U+1D4A2", "U+1D4A5", "U+1D4A6", "U+1D4A9", "U+1D4AA", "U+1D4AB", "U+1D4AC",
      "U+1D4AE", "U+1D4AF", "U+1D4B0", "U+1D4B1", "U+1D4B2", "U+1D4B3", "U+1D4B4", "U+1D4B5",
      "U+1D4B6", "U+1D4B7", "U+1D4B8", "U+1D4B9", "U+1D4BB", "U+1D4BD", "U+1D4BE", "U+1D4BF",
      "U+1D4C0", "U+1D4C1", "U+1D4C2", "U+1D4C3", "U+1D4C5", "U+1D4C6", "U+1D4C7", "U+1D4C8",
      "U+1D4C9", "U+1D4CA", "U+1D4CB", "U+1D4CC", "U+1D4CD", "U+1D4CE", "U+1D4CF", "U+1D4D0",
      "U+1D4D1", "U+1D4D2", "U+1D4D3", "U+1D4D4", "U+1D4D5", "U+1D4D6", "U+1D4D7", "U+1D4D8",
      "U+1D4D9", "U+1D4DA", "U+1D4DB", "U+1D4DC", "U+1D4DD", "U+1D4DE", "U+1D4DF", "U+1D4E0",
      "U+1D4E1", "U+1D4E2", "U+1D4E3", "U+1D4E4", "U+1D4E5", "U+1D4E6", "U+1D4E7", "U+1D4E8",
      "U+1D4E9", "U+1D4EA", "U+1D4EB", "U+1D4EC", "U+1D4ED", "U+1D4EE", "U+1D4EF", "U+1D4F0",
      "U+1D4F1", "U+1D4F2", "U+1D4F3", "U+1D4F4", "U+1D4F5", "U+1D4F6", "U+1D4F7", "U+1D4F8",
      "U+1D4F9", "U+1D4FA", "U+1D4FB", "U+1D4FC", "U+1D4FD", "U+1D4FE", "U+1D4FF", "U+1D500",
      "U+1D501", "U+1D502", "U+1D503", "U+1D504", "U+1D505", "U+1D507", "U+1D508", "U+1D509",
      "U+1D50A", "U+1D50D", "U+1D50E", "U+1D50F", "U+1D510", "U+1D511", "U+1D512", "U+1D513",
      "U+1D514", "U+1D516", "U+1D517", "U+1D518", "U+1D519", "U+1D51A", "U+1D51B", "U+1D51C",
      "U+1D51E", "U+1D51F", "U+1D520", "U+1D521", "U+1D522", "U+1D523", "U+1D524", "U+1D525",
      "U+1D526", "U+1D527", "U+1D528", "U+1D529", "U+1D52A", "U+1D52B", "U+1D52C", "U+1D52D",
      "U+1D52E", "U+1D52F", "U+1D530", "U+1D531", "U+1D532", "U+1D533", "U+1D534", "U+1D535",
      "U+1D536", "U+1D537", "U+1D538", "U+1D539", "U+1D53B", "U+1D53C", "U+1D53D", "U+1D53E",
      "U+1D540", "U+1D541", "U+1D542", "U+1D543", "U+1D544", "U+1D546", "U+1D54A", "U+1D54B",
      "U+1D54C", "U+1D54D", "U+1D54E", "U+1D54F", "U+1D550", "U+1D552", "U+1D553", "U+1D554",
      "U+1D555", "U+1D556", "U+1D557", "U+1D558", "U+1D559", "U+1D55A", "U+1D55B", "U+1D55C",
      "U+1D55D", "U+1D55E", "U+1D55F", "U+1D560", "U+1D561", "U+1D562", "U+1D563", "U+1D564",
      "U+1D565", "U+1D566", "U+1D567", "U+1D568", "U+1D569", "U+1D56A", "U+1D56B", "U+1D56C",
      "U+1D56D", "U+1D56E", "U+1D56F", "U+1D570", "U+1D571", "U+1D572", "U+1D573", "U+1D574",
      "U+1D575", "U+1D576", "U+1D577", "U+1D578", "U+1D579", "U+1D57A", "U+1D57B", "U+1D57C",
      "U+1D57D", "U+1D57E", "U+1D57F", "U+1D580", "U+1D581", "U+1D582", "U+1D583", "U+1D584",
      "U+1D585", "U+1D586", "U+1D587", "U+1D588", "U+1D589", "U+1D58A", "U+1D58B", "U+1D58C",
      "U+1D58D", "U+1D58E", "U+1D58F", "U+1D590", "U+1D591", "U+1D592", "U+1D593", "U+1D594",
      "U+1D595", "U+1D596", "U+1D597", "U+1D598", "U+1D599", "U+1D59A", "U+1D59B", "U+1D59C",
      "U+1D59D", "U+1D59E", "U+1D59F", "U+1D5A0", "U+1D5A1", "U+1D5A2", "U+1D5A3", "U+1D5A4",
      "U+1D5A5", "U+1D5A6", "U+1D5A7", "U+1D5A8", "U+1D5A9", "U+1D5AA", "U+1D5AB", "U+1D5AC",
      "U+1D5AD", "U+1D5AE", "U+1D5AF", "U+1D5B0", "U+1D5B1", "U+1D5B2", "U+1D5B3", "U+1D5B4",
      "U+1D5B5", "U+1D5B6", "U+1D5B7", "U+1D5B8", "U+1D5B9", "U+1D5BA", "U+1D5BB", "U+1D5BC",
      "U+1D5BD", "U+1D5BE", "U+1D5BF", "U+1D5C0", "U+1D5C1", "U+1D5C2", "U+1D5C3", "U+1D5C4",
      "U+1D5C5", "U+1D5C6", "U+1D5C7", "U+1D5C8", "U+1D5C9", "U+1D5CA", "U+1D5CB", "U+1D5CC",
      "U+1D5CD", "U+1D5CE", "U+1D5CF", "U+1D5D0", "U+1D5D1", "U+1D5D2", "U+1D5D3", "U+1D5D4",
      "U+1D5D5", "U+1D5D6", "U+1D5D7", "U+1D5D8", "U+1D5D9", "U+1D5DA", "U+1D5DB", "U+1D5DC",
      "U+1D5DD", "U+1D5DE", "U+1D5DF", "U+1D5E0", "U+1D5E1", "U+1D5E2", "U+1D5E3", "U+1D5E4",
      "U+1D5E5", "U+1D5E6", "U+1D5E7", "U+1D5E8", "U+1D5E9", "U+1D5EA", "U+1D5EB", "U+1D5EC",
      "U+1D5ED", "U+1D5EE", "U+1D5EF", "U+1D5F0", "U+1D5F1", "U+1D5F2", "U+1D5F3", "U+1D5F4",
      "U+1D5F5", "U+1D5F6", "U+1D5F7", "U+1D5F8", "U+1D5F9", "U+1D5FA", "U+1D5FB", "U+1D5FC",
      "U+1D5FD", "U+1D5FE", "U+1D5FF", "U+1D600", "U+1D601", "U+1D602", "U+1D603", "U+1D604",
      "U+1D605", "U+1D606", "U+1D607", "U+1D608", "U+1D609", "U+1D60A", "U+1D60B", "U+1D60C",
      "U+1D60D", "U+1D60E", "U+1D60F", "U+1D610", "U+1D611", "U+1D612", "U+1D613", "U+1D614",
      "U+1D615", "U+1D616", "U+1D617", "U+1D618", "U+1D619", "U+1D61A", "U+1D61B", "U+1D61C",
      "U+1D61D", "U+1D61E", "U+1D61F", "U+1D620", "U+1D621", "U+1D622", "U+1D623", "U+1D624",
      "U+1D625", "U+1D626", "U+1D627", "U+1D628", "U+1D629", "U+1D62A", "U+1D62B", "U+1D62C",
      "U+1D62D", "U+1D62E", "U+1D62F", "U+1D630", "U+1D631", "U+1D632", "U+1D633", "U+1D634",
      "U+1D635", "U+1D636", "U+1D637", "U+1D638", "U+1D639", "U+1D63A", "U+1D63B", "U+1D63C",
      "U+1D63D", "U+1D63E", "U+1D63F", "U+1D640", "U+1D641", "U+1D642", "U+1D643", "U+1D644",
      "U+1D645", "U+1D646", "U+1D647", "U+1D648", "U+1D649", "U+1D64A", "U+1D64B", "U+1D64C",
      "U+1D64D", "U+1D64E", "U+1D64F", "U+1D650", "U+1D651", "U+1D652", "U+1D653", "U+1D654",
      "U+1D655", "U+1D656", "U+1D657", "U+1D658", "U+1D659", "U+1D65A", "U+1D65B", "U+1D65C",
      "U+1D65D", "U+1D65E", "U+1D65F", "U+1D660", "U+1D661", "U+1D662", "U+1D663", "U+1D664",
      "U+1D665", "U+1D666", "U+1D667", "U+1D668", "U+1D669", "U+1D66A", "U+1D66B", "U+1D66C",
      "U+1D66D", "U+1D66E", "U+1D66F", "U+1D670", "U+1D671", "U+1D672", "U+1D673", "U+1D674",
      "U+1D675", "U+1D676", "U+1D677", "U+1D678", "U+1D679", "U+1D67A", "U+1D67B", "U+1D67C",
      "U+1D67D", "U+1D67E", "U+1D67F", "U+1D680", "U+1D681", "U+1D682", "U+1D683", "U+1D684",
      "U+1D685", "U+1D686", "U+1D687", "U+1D688", "U+1D689", "U+1D68A", "U+1D68B", "U+1D68C",
      "U+1D68D", "U+1D68E", "U+1D68F", "U+1D690", "U+1D691", "U+1D692", "U+1D693", "U+1D694",
      "U+1D695", "U+1D696", "U+1D697", "U+1D698", "U+1D699", "U+1D69A", "U+1D69B", "U+1D69C",
      "U+1D69D", "U+1D69E", "U+1D69F", "U+1D6A0", "U+1D6A1", "U+1D6A2", "U+1D6A3", "U+1D6A4",
      "U+1D6A5", "U+1D6A8", "U+1D6A9", "U+1D6AA", "U+1D6AB", "U+1D6AC", "U+1D6AD", "U+1D6AE",
      "U+1D6AF", "U+1D6B0", "U+1D6B1", "U+1D6B2", "U+1D6B3", "U+1D6B4", "U+1D6B5", "U+1D6B6",
      "U+1D6B7", "U+1D6B8", "U+1D6B9", "U+1D6BA", "U+1D6BB", "U+1D6BC", "U+1D6BD", "U+1D6BE",
      "U+1D6BF", "U+1D6C0", "U+1D6C2", "U+1D6C3", "U+1D6C4", "U+1D6C5", "U+1D6C6", "U+1D6C7",
      "U+1D6C8", "U+1D6C9", "U+1D6CA", "U+1D6CB", "U+1D6CC", "U+1D6CD", "U+1D6CE", "U+1D6CF",
      "U+1D6D0", "U+1D6D1", "U+1D6D2", "U+1D6D3", "U+1D6D4", "U+1D6D5", "U+1D6D6", "U+1D6D7",
      "U+1D6D8", "U+1D6D9", "U+1D6DA", "U+1D6DC", "U+1D6DD", "U+1D6DE", "U+1D6DF", "U+1D6E0",
      "U+1D6E1", "U+1D6E2", "U+1D6E3", "U+1D6E4", "U+1D6E5", "U+1D6E6", "U+1D6E7", "U+1D6E8",
      "U+1D6E9", "U+1D6EA", "U+1D6EB", "U+1D6EC", "U+1D6ED", "U+1D6EE", "U+1D6EF", "U+1D6F0",
      "U+1D6F1", "U+1D6F2", "U+1D6F3", "U+1D6F4", "U+1D6F5", "U+1D6F6", "U+1D6F7", "U+1D6F8",
      "U+1D6F9", "U+1D6FA", "U+1D6FC", "U+1D6FD", "U+1D6FE", "U+1D6FF", "U+1D700", "U+1D701",
      "U+1D702", "U+1D703", "U+1D704", "U+1D705", "U+1D706", "U+1D707", "U+1D708", "U+1D709",
      "U+1D70A", "U+1D70B", "U+1D70C", "U+1D70D", "U+1D70E", "U+1D70F", "U+1D710", "U+1D711",
      "U+1D712", "U+1D713", "U+1D714", "U+1D716", "U+1D717", "U+1D718", "U+1D719", "U+1D71A",
      "U+1D71B", "U+1D71C", "U+1D71D", "U+1D71E", "U+1D71F", "U+1D720", "U+1D721", "U+1D722",
      "U+1D723", "U+1D724", "U+1D725", "U+1D726", "U+1D727", "U+1D728", "U+1D729", "U+1D72A",
      "U+1D72B", "U+1D72C", "U+1D72D", "U+1D72E", "U+1D72F", "U+1D730", "U+1D731", "U+1D732",
      "U+1D733", "U+1D734", "U+1D736", "U+1D737", "U+1D738", "U+1D739", "U+1D73A", "U+1D73B",
      "U+1D73C", "U+1D73D", "U+1D73E", "U+1D73F", "U+1D740", "U+1D741", "U+1D742", "U+1D743",
      "U+1D744", "U+1D745", "U+1D746", "U+1D747", "U+1D748", "U+1D749", "U+1D74A", "U+1D74B",
      "U+1D74C", "U+1D74D", "U+1D74E", "U+1D750", "U+1D751", "U+1D752", "U+1D753", "U+1D754",
      "U+1D755", "U+1D756", "U+1D757", "U+1D758", "U+1D759", "U+1D75A", "U+1D75B", "U+1D75C",
      "U+1D75D", "U+1D75E", "U+1D75F", "U+1D760", "U+1D761", "U+1D762", "U+1D763", "U+1D764",
      "U+1D765", "U+1D766", "U+1D767", "U+1D768", "U+1D769", "U+1D76A", "U+1D76B", "U+1D76C",
      "U+1D76D", "U+1D76E", "U+1D770", "U+1D771", "U+1D772", "U+1D773", "U+1D774", "U+1D775",
      "U+1D776", "U+1D777", "U+1D778", "U+1D779", "U+1D77A", "U+1D77B", "U+1D77C", "U+1D77D",
      "U+1D77E", "U+1D77F", "U+1D780", "U+1D781", "U+1D782", "U+1D783", "U+1D784", "U+1D785",
      "U+1D786", "U+1D787", "U+1D788", "U+1D78A", "U+1D78B", "U+1D78C", "U+1D78D", "U+1D78E",
      "U+1D78F", "U+1D790", "U+1D791", "U+1D792", "U+1D793", "U+1D794", "U+1D795", "U+1D796",
      "U+1D797", "U+1D798", "U+1D799", "U+1D79A", "U+1D79B", "U+1D79C", "U+1D79D", "U+1D79E",
      "U+1D79F", "U+1D7A0", "U+1D7A1", "U+1D7A2", "U+1D7A3", "U+1D7A4", "U+1D7A5", "U+1D7A6",
      "U+1D7A7", "U+1D7A8", "U+1D7AA", "U+1D7AB", "U+1D7AC", "U+1D7AD", "U+1D7AE", "U+1D7AF",
      "U+1D7B0", "U+1D7B1", "U+1D7B2", "U+1D7B3", "U+1D7B4", "U+1D7B5", "U+1D7B6", "U+1D7B7",
      "U+1D7B8", "U+1D7B9", "U+1D7BA", "U+1D7BB", "U+1D7BC", "U+1D7BD", "U+1D7BE", "U+1D7BF",
      "U+1D7C0", "U+1D7C1", "U+1D7C2", "U+1D7C4", "U+1D7C5", "U+1D7C6", "U+1D7C7", "U+1D7C8",
      "U+1D7C9", "U+1D7CA", "U+1D7CB", "U+1DF00", "U+1DF01", "U+1DF02", "U+1DF03", "U+1DF04",
      "U+1DF05", "U+1DF06", "U+1DF07", "U+1DF08", "U+1DF09", "U+1DF0B", "U+1DF0C", "U+1DF0D",
      "U+1DF0E", "U+1DF0F", "U+1DF10", "U+1DF11", "U+1DF12", "U+1DF13", "U+1DF14", "U+1DF15",
      "U+1DF16", "U+1DF17", "U+1DF18", "U+1DF19", "U+1DF1A", "U+1DF1B", "U+1DF1C", "U+1DF1D",
      "U+1DF1E", "U+1E900", "U+1E901", "U+1E902", "U+1E903", "U+1E904", "U+1E905", "U+1E906",
      "U+1E907", "U+1E908", "U+1E909", "U+1E90A", "U+1E90B", "U+1E90C", "U+1E90D", "U+1E90E",
      "U+1E90F", "U+1E910", "U+1E911", "U+1E912", "U+1E913", "U+1E914", "U+1E915", "U+1E916",
      "U+1E917", "U+1E918", "U+1E919", "U+1E91A", "U+1E91B", "U+1E91C", "U+1E91D", "U+1E91E",
      "U+1E91F", "U+1E920", "U+1E921", "U+1E922", "U+1E923", "U+1E924", "U+1E925", "U+1E926",
      "U+1E927", "U+1E928", "U+1E929", "U+1E92A", "U+1E92B", "U+1E92C", "U+1E92D", "U+1E92E",
      "U+1E92F", "U+1E930", "U+1E931", "U+1E932", "U+1E933", "U+1E934", "U+1E935", "U+1E936",
      "U+1E937", "U+1E938", "U+1E939", "U+1E93A", "U+1E93B", "U+1E93C", "U+1E93D", "U+1E93E",
      "U+1E93F", "U+1E940", "U+1E941", "U+1E942", "U+1E943", "U+1F130", "U+1F131", "U+1F132",
      "U+1F133", "U+1F134", "U+1F135", "U+1F136", "U+1F137", "U+1F138", "U+1F139", "U+1F13A",
      "U+1F13B", "U+1F13C", "U+1F13D", "U+1F13E", "U+1F13F", "U+1F140", "U+1F141", "U+1F142",
      "U+1F143", "U+1F144", "U+1F145", "U+1F146", "U+1F147", "U+1F148", "U+1F149", "U+1F150",
      "U+1F151", "U+1F152", "U+1F153", "U+1F154", "U+1F155", "U+1F156", "U+1F157", "U+1F158",
      "U+1F159", "U+1F15A", "U+1F15B", "U+1F15C", "U+1F15D", "U+1F15E", "U+1F15F", "U+1F160",
      "U+1F161", "U+1F162", "U+1F163", "U+1F164", "U+1F165", "U+1F166", "U+1F167", "U+1F168",
      "U+1F169", "U+1F170", "U+1F171", "U+1F172", "U+1F173", "U+1F174", "U+1F175", "U+1F176",
      "U+1F177", "U+1F178", "U+1F179", "U+1F17A", "U+1F17B", "U+1F17C", "U+1F17D", "U+1F17E",
      "U+1F17F", "U+1F180", "U+1F181", "U+1F182", "U+1F183", "U+1F184", "U+1F185", "U+1F186",
      "U+1F187", "U+1F188", "U+1F189", "U+03A3"}

\* the characters with the property Case_Ignorable
CaseIgnorable ==
    {
      "'", ".", ":", "^", "U+0060", "U+00A8", "U+00AD", "U+00AF", "U+00B4", "U+00B7", "U+00B8",
      "U+02B0", "U+02B1", "U+02B2", "U+02B3", "U+02B4", "U+02B5", "U+02B6", "U+02B7", "U+02B8",
      "U+02B9", "U+02BA", "U+02BB", "U+02BC", "U+02BD", "U+02BE", "U+02BF", "U+02C0", "U+02C1",
      "U+02C2", "U+02C3", "U+02C4", "U+02C5", "U+02C6", "U+02C7", "U+02C8", "U+02C9", "U+02CA",
      "U+02CB", "U+02CC", "U+02CD", "U+02CE", "U+02CF", "U+02D0", "U+02D1", "U+02D2", "U+02D3",
      "U+02D4", "U+02D5", "U+02D6", "U+02D7", "U+02D8", "U+02D9", "U+02DA", "U+02DB", "U+02DC",
      "U+02DD", "U+02DE", "U+02DF", "U+02E0", "U+02E1", "U+02E2", "U+02E3", "U+02E4", "U+02E5",
      "U+02E6", "U+02E7", "U+02E8", "U+02E9", "U+02EA", "U+02EB", "U+02EC", "U+02ED", "U+02EE",
      "U+02EF", "U+02F0", "U+02F1", "U+02F2", "U+02F3", "U+02F4", "U+02F5", "U+02F6", "U+02F7",
      "U+02F8", "U+02F9", "U+02FA", "U+02FB", "U+02FC", "U+02FD", "U+02FE", "U+02FF", "U+0300",
      "U+0301", "U+0302", "U+0303", "U+0304", "U+0305", "U+0306", "U+0307", "U+0308", "U+0309",
      "U+030A", "U+030B", "U+030C", "U+030D", "U+030E", "U+030F", "U+0310", "U+0311", "U+0312",
      "U+0313", "U+0314", "U+0315", "U+0316", "U+0317", "U+0318", "U+0319", "U+031A", "U+031B",
      "U+031C", "U+031D", "U+031E", "U+031F", "U+0320", "U+0321", "U+0322", "U+0323", "U+0324",
      "U+0325", "U+0326", "U+0327", "U+0328", "U+0329", "U+032A", "U+032B", "U+032C", "U+032D",
      "U+032E", "U+032F", "U+0330", "U+0331", "U+0332", "U+0333", "U+0334", "U+0335", "U+0336",
      "U+0337", "U+0338", "U+0339", "U+033A", "U+033B", "U+033C", "U+033D", "U+033E", "U+033F",
      "U+0340", "U+0341", "U+0342", "U+0343", "U+0344", "U+0345", "U+0346", "U+0347", "U+0348",
      "U+0349", "U+034A", "U+034B", "U+034C", "U+034D", "U+034E", "U+034F", "U+0350", "U+0351",
      "U+0352", "U+0353", "U+0354", "U+0355", "U+0356", "U+0357", "U+0358", "U+0359", "U+035A",
      "U+035B", "U+035C", "U+035D", "U+035E", "U+035F", "U+0360", "U+0361", "U+0362", "U+0363",
      "U+0364", "U+0365", "U+0366", "U+0367", "U+0368", "U+0369", "U+036A", "U+036B", "U+036C",
      "U+036D", "U+036E", "U+036F", "U+0374", "U+0375", "U+037A", "U+0384", "U+0385", "U+0387",
      "U+0483", "U+0484", "U+0485", "U+0486", "U+0487", "U+0488", "U+0489", "U+0559", "U+055F",
      "U+0591", "U+0592", "U+0593", "U+0594", "U+0595", "U+0596", "U+0597", "U+0598", "U+0599",
      "U+059A", "U+059B", "U+059C", "U+059D", "U+059E", "U+059F", "U+05A0", "U+05A1", "U+05A2",
      "U+05A3", "U+05A4", "U+05A5", "U+05A6", "U+05A7", "U+05A8", "U+05A9", "U+05AA", "U+05AB",
      "U+05AC", "U+05AD", "U+05AE", "U+05AF", "U+05B0", "U+05B1", "U+05B2", "U+05B3", "U+05B4",
      "U+05B5", "U+05B6", "U+05B7", "U+05B8", "U+05B9", "U+05BA", "U+05BB", "U+05BC", "U+05BD",
      "U+05BF", "U+05C1", "U+05C2", "U+05C4", "U+05C5", "U+05C7", "U+05F4", "U+0600", "U+0601",
      "U+0602", "U+0603", "U+0604", "U+0605", "U+0610", "U+0611", "U+0612", "U+0613", "U+0614",
      "U+0615", "U+0616", "U+0617", "U+0618", "U+0619", "U+061A", "U+061C", "U+0640", "U+064B",
      "U+064C", "U+064D", "U+064E", "U+064F", "U+0650", "U+0651", "U+0652", "U+0653", "U+0654",
      "U+0655", "U+0656", "U+0657", "U+0658", "U+0659", "U+065A", "U+065B", "U+065C", "U+065D",
      "U+065E", "U+065F", "U+0670", "U+06D6", "U+06D7", "U+06D8", "U+06D9", "U+06DA", "U+06DB",
      "U+06DC", "U+06DD", "U+06DF", "U+06E0", "U+06E1", "U+06E2", "U+06E3", "U+06E4", "U+06E5",
      "U+06E6", "U+06E7", "U+06E8", "U+06EA", "U+06EB", "U+06EC", "U+06ED", "U+070F", "U+0711",
      "U+0730", "U+0731", "U+0732", "U+0733", "U+0734", "U+0735", "U+0736", "U+0737", "U+0738",
      "U+0739", "U+073A", "U+073B", "U+073C", "U+073D", "U+073E", "U+073F", "U+0740", "U+0741",
      "U+0742", "U+0743", "U+0744", "U+0745", "U+0746", "U+0747", "U+0748", "U+0749", "U+074A",
      "U+07A6", "U+07A7", "U+07A8", "U+07A9", "U+07AA", "U+07AB", "U+07AC", "U+07AD", "U+07AE",
      "U+07AF", "U+07B0", "U+07EB", "U+07EC", "U+07ED", "U+07EE", "U+07EF", "U+07F0", "U+07F1",
      "U+07F2", "U+07F3", "U+07F4", "U+07F5", "U+07FA", "U+07FD", "U+0816", "U+0817", "U+0818",
      "U+0819", "U+081A", "U+081B", "U+081C", "U+081D", "U+081E", "U+081F", "U+0820", "U+0821",
      "U+0822", "U+0823", "U+0824", "U+0825", "U+0826", "U+0827", "U+0828", "U+0829", "U+082A",
      "U+082B", "U+082C", "U+082D", "U+0859", "U+085A", "U+085B", "U+0888", "U+0890", "U+0891",
      "U+0898", "U+0899", "U+089A", "U+089B", "U+089C", "U+089D", "U+089E", "U+089F", "U+08C9",
      "U+08CA", "U+08CB", "U+08CC", "U+08CD", "U+08CE", "U+08CF", "U+08D0", "U+08D1", "U+08D2",
      "U+08D3", "U+08D4", "U+08D5", "U+08D6", "U+08D7", "U+08D8", "U+08D9", "U+08DA", "U+08DB",
      "U+08DC", "U+08DD", "U+08DE", "U+08DF", "U+08E0", "U+08E1", "U+08E2", "U+08E3", "U+08E4",
      "U+08E5", "U+08E6", "U+08E7", "U+08E8", "U+08E9", "U+08EA", "U+08EB", "U+08EC", "U+08ED",
      "U+08EE", "U+08EF", "U+08F0", "U+08F1", "U+08F2", "U+08F3", "U+08F4", "U+08F5", "U+08F6",
      "U+08F7", "U+08F8", "U+08F9", "U+08FA", "U+08FB", "U+08FC", "U+08FD", "U+08FE", "U+08FF",
      "U+0900", "U+0901", "U+0902", "U+093A", "U+093C", "U+0941", "U+0942", "U+0943", "U+0944",
      "U+0945", "U+0946", "U+0947", "U+0948", "U+094D", "U+0951", "U+0952", "U+0953", "U+0954",
      "U+0955", "U+0956", "U+0957", "U+0962", "U+0963", "U+0971", "U+0981", "U+09BC", "U+09C1",
      "U+09C2", "U+09C3", "U+09C4", "U+09CD", "U+09E2", "U+09E3", "U+09FE", "U+0A01", "U+0A02",
      "U+0A3C", "U+0A41", "U+0A42", "U+0A47", "U+0A48", "U+0A4B", "U+0A4C", "U+0A4D", "U+0A51",
      "U+0A70", "U+0A71", "U+0A75", "U+0A81", "U+0A82", "U+0ABC", "U+0AC1", "U+0AC2", "U+0AC3",
      "U+0AC4", "U+0AC5", "U+0AC7", "U+0AC8", "U+0ACD", "U+0AE2", "U+0AE3", "U+0AFA", "U+0AFB",
      "U+0AFC", "U+0AFD", "U+0AFE", "U+0AFF", "U+0B01", "U+0B3C", "U+0B3F", "U+0B41", "U+0B42",
      "U+0B43", "U+0B44", "U+0B4D", "U+0B55", "U+0B56", "U+0B62", "U+0B63", "U+0B82", "U+0BC0",
      "U+0BCD", "U+0C00", "U+0C04", "U+0C3C", "U+0C3E", "U+0C3F", "U+0C40", "U+0C46", "U+0C47",
      "U+0C48", "U+0C4A", "U+0C4B", "U+0C4C", "U+0C4D", "U+0C55", "U+0C56", "U+0C62", "U+0C63",
      "U+0C81", "U+0CBC", "U+0CBF", "U+0CC6", "U+0CCC", "U+0CCD", "U+0CE2", "U+0CE3", "U+0D00",
      "U+0D01", "U+0D3B", "U+0D3C", "U+0D41", "U+0D42", "U+0D43", "U+0D44", "U+0D4D", "U+0D62",
      "U+0D63", "U+0D81", "U+0DCA", "U+0DD2", "U+0DD3", "U+0DD4", "U+0DD6", "U+0E31", "U+0E34",
      "U+0E35", "U+0E36", "U+0E37", "U+0E38", "U+0E39", "U+0E3A", "U+0E46", "U+0E47", "U+0E48",
      "U+0E49", "U+0E4A", "U+0E4B", "U+0E4C", "U+0E4D", "U+0E4E", "U+0EB1", "U+0EB4", "U+0EB5",
      "U+0EB6", "U+0EB7", "U+0EB8", "U+0EB9", "U+0EBA", "U+0EBB", "U+0EBC", "U+0EC6", "U+0EC8",
      "U+0EC9", "U+0ECA", "U+0ECB", "U+0ECC", "U+0ECD", "U+0F18", "U+0F19", "U+0F35", "U+0F37",
      "U+0F39", "U+0F71", "U+0F72", "U+0F73", "U+0F74", "U+0F75", "U+0F76", "U+0F77", "U+0F78",
      "U+0F79", "U+0F7A", "U+0F7B", "U+0F7C", "U+0F7D", "U+0F7E", "U+0F80", "U+0F81", "U+0F82",
      "U+0F83", "U+0F84", "U+0F86", "U+0F87", "U+0F8D", "U+0F8E", "U+0F8F", "U+0F90", "U+0F91",
      "U+0F92", "U+0F93", "U+0F94", "U+0F95", "U+0F96", "U+0F97", "U+0F99", "U+0F9A", "U+0F9B",
      "U+0F9C", "U+0F9D", "U+0F9E", "U+0F9F", "U+0FA0", "U+0FA1", "U+0FA2", "U+0FA3", "U+0FA4",
      "U+0FA5", "U+0FA6", "U+0FA7", "U+0FA8", "U+0FA9", "U+0FAA", "U+0FAB", "U+0FAC", "U+0FAD",
      "U+0FAE", "U+0FAF", "U+0FB0", "U+0FB1", "U+0FB2", "U+0FB3", "U+0FB4", "U+0FB5", "U+0FB6",
      "U+0FB7", "U+0FB8", "U+0FB9", "U+0FBA", "U+0FBB", "U+0FBC", "U+0FC6", "U+102D", "U+102E",
      "U+102F", "U+1030", "U+1032", "U+1033", "U+1034", "U+1035", "U+1036", "U+1037", "U+1039",
      "U+103A", "U+103D", "U+103E", "U+1058", "U+1059", "U+105E", "U+105F", "U+1060", "U+1071",
      "U+1072", "U+1073", "U+1074", "U+1082", "U+1085", "U+1086", "U+108D", "U+109D", "U+10FC",
      "U+135D", "U+135E", "U+135F", "U+1712", "U+1713", "U+1714", "U+1732", "U+1733", "U+1752",
      "U+1753", "U+1772", "U+1773", "U+17B4", "U+17B5", "U+17B7", "U+17B8", "U+17B9", "U+17BA",
      "U+17BB", "U+17BC", "U+17BD", "U+17C6", "U+17C9", "U+17CA", "U+17CB", "U+17CC", "U+17CD",
      "U+17CE", "U+17CF", "U+17D0", "U+17D1", "U+17D2", "U+17D3", "U+17D7", "U+17DD", "U+180B",
      "U+180C", "U+180D", "U+180E", "U+180F", "U+1843", "U+1885", "U+1886", "U+18A9", "U+1920",
      "U+1921", "U+1922", "U+1927", "U+1928", "U+1932", "U+1939", "U+193A", "U+193B", "U+1A17",
      "U+1A18", "U+1A1B", "U+1A56", "U+1A58", "U+1A59", "U+1A5A", "U+1A5B", "U+1A5C", "U+1A5D",
      "U+1A5E", "U+1A60", "U+1A62", "U+1A65", "U+1A66", "U+1A67", "U+1A68", "U+1A69", "U+1A6A",
      "U+1A6B", "U+1A6C", "U+1A73", "U+1A74", "U+1A75", "U+1A76", "U+1A77", "U+1A78", "U+1A79",
      "U+1A7A", "U+1A7B", "U+1A7C", "U+1A7F", "U+1AA7", "U+1AB0", "U+1AB1", "U+1AB2", "U+1AB3",
      "U+1AB4", "U+1AB5", "U+1AB6", "U+1AB7", "U+1AB8", "U+1AB9", "U+1ABA", "U+1ABB", "U+1ABC",
      "U+1ABD", "U+1ABE", "U+1ABF", "U+1AC0", "U+1AC1", "U+1AC2", "U+1AC3", "U+1AC4", "U+1AC5",
      "U+1AC6", "U+1AC7", "U+1AC8", "U+1AC9", "U+1ACA", "U+1ACB", "U+1ACC", "U+1ACD", "U+1ACE",
      "U+1B00", "U+1B01", "U+1B02", "U+1B03", "U+1B34", "U+1B36", "U+1B37", "U+1B38", "U+1B39",
      "U+1B3A", "U+1B3C", "U+1B42", "U+1B6B", "U+1B6C", "U+1B6D", "U+1B6E", "U+1B6F", "U+1B70",
      "U+1B71", "U+1B72", "U+1B73", "U+1B80", "U+1B81", "U+1BA2", "U+1BA3", "U+1BA4", "U+1BA5",
      "U+1BA8", "U+1BA9", "U+1BAB", "U+1BAC", "U+1BAD", "U+1BE6", "U+1BE8", "U+1BE9", "U+1BED",
      "U+1BEF", "U+1BF0", "U+1BF1", "U+1C2C", "U+1C2D", "U+1C2E", "U+1C2F", "U+1C30", "U+1C31",
      "U+1C32", "U+1C33", "U+1C36", "U+1C37", "U+1C78", "U+1C79", "U+1C7A", "U+1C7B", "U+1C7C",
      "U+1C7D", "U+1CD0", "U+1CD1", "U+1CD2", "U+1CD4", "U+1CD5", "U+1CD6", "U+1CD7", "U+1CD8",
      "U+1CD9", "U+1CDA", "U+1CDB", "U+1CDC", "U+1CDD", "U+1CDE", "U+1CDF", "U+1CE0", "U+1CE2",
      "U+1CE3", "U+1CE4", "U+1CE5", "U+1CE6", "U+1CE7", "U+1CE8", "U+1CED", "U+1CF4", "U+1CF8",
      "U+1CF9", "U+1D2C", "U+1D2D", "U+1D2E", "U+1D2F", "U+1D30", "U+1D31", "U+1D32", "U+1D33",
      "U+1D34", "U+1D35", "U+1D36", "U+1D37", "U+1D38", "U+1D39", "U+1D3A", "U+1D3B", "U+1D3C",
      "U+1D3D", "U+1D3E", "U+1D3F", "U+1D40", "U+1D41", "U+1D42", "U+1D43", "U+1D44", "U+1D45",
      "U+1D46", "U+1D47", "U+1D48", "U+1D49", "U+1D4A", "U+1D4B", "U+1D4C", "U+1D4D", "U+1D4E",
      "U+1D4F", "U+1D50", "U+1D51", "U+1D52", "U+1D53", "U+1D54", "U+1D55", "U+1D56", "U+1D57",
      "U+1D58", "U+1D59", "U+1D5A", "U+1D5B", "U+1D5C", "U+1D5D", "U+1D5E", "U+1D5F", "U+1D60",
      "U+1D61", "U+1D62", "U+1D63", "U+1D64", "U+1D65", "U+1D66", "U+1D67", "U+1D68", "U+1D69",
      "U+1D6A", "U+1D78", "U+1D9B", "U+1D9C", "U+1D9D", "U+1D9E", "U+1D9F", "U+1DA0", "U+1DA1",
      "U+1DA2", "U+1DA3", "U+1DA4", "U+1DA5", "U+1DA6", "U+1DA7", "U+1DA8", "U+1DA9", "U+1DAA",
      "U+1DAB", "U+1DAC", "U+1DAD", "U+1DAE", "U+1DAF", "U+1DB0", "U+1DB1", "U+1DB2", "U+1DB3",
      "U+1DB4", "U+1DB5", "U+1DB6", "U+1DB7", "U+1DB8", "U+1DB9", "U+1DBA", "U+1DBB", "U+1DBC",
      "U+1DBD", "U+1DBE", "U+1DBF", "U+1DC0", "U+1DC1", "U+1DC2", "U+1DC3", "U+1DC4", "U+1DC5",
      "U+1DC6", "U+1DC7", "U+1DC8", "U+1DC9", "U+1DCA", "U+1DCB", "U+1DCC", "U+1DCD", "U+1DCE",
      "U+1DCF", "U+1DD0", "U+1DD1", "U+1DD2", "U+1DD3", "U+1DD4", "U+1DD5", "U+1DD6", "U+1DD7",
      "U+1DD8", "U+1DD9", "U+1DDA", "U+1DDB", "U+1DDC", "U+1DDD", "U+1DDE", "U+1DDF", "U+1DE0",
      "U+1DE1", "U+1DE2", "U+1DE3", "U+1DE4", "U+1DE5", "U+1DE6", "U+1DE7", "U+1DE8", "U+1DE9",
      "U+1DEA", "U+1DEB", "U+1DEC", "U+1DED", "U+1DEE", "U+1DEF", "U+1DF0", "U+1DF1", "U+1DF2",
      "U+1DF3", "U+1DF4", "U+1DF5", "U+1DF6", "U+1DF7", "U+1DF8", "U+1DF9", "U+1DFA", "U+1DFB",
      "U+1DFC", "U+1DFD", "U+1DFE", "U+1DFF", "U+1FBD", "U+1FBF", "U+1FC0", "U+1FC1", "U+1FCD",
      "U+1FCE", "U+1FCF", "U+1FDD", "U+1FDE", "U+1FDF", "U+1FED", "U+1FEE", "U+1FEF", "U+1FFD",
      "U+1FFE", "U+200B", "U+200C", "U+200D", "U+200E", "U+200F", "U+2018", "U+2019", "U+2024",
      "U+2027", "U+202A", "U+202B", "U+202C", "U+202D", "U+202E", "U+2060", "U+2061", "U+2062",
      "U+2063", "U+2064", "U+2066", "U+2067", "U+2068", "U+2069", "U+206A", "U+206B", "U+206C",
      "U+206D", "U+206E", "U+206F", "U+2071", "U+207F", "U+2090", "U+2091", "U+2092", "U+2093",
      "U+2094", "U+2095", "U+2096", "U+2097", "U+2098", "U+2099", "U+209A", "U+209B", "U+209C",
      "U+20D0", "U+20D1", "U+20D2", "U+20D3", "U+20D4", "U+20D5", "U+20D6", "U+20D7", "U+20D8",
      "U+20D9", "U+20DA", "U+20DB", "U+20DC", "U+20DD", "U+20DE", "U+20DF", "U+20E0", "U+20E1",
      "U+20E2", "U+20E3", "U+20E4", "U+20E5", "U+20E6", "U+20E7", "U+20E8", "U+20E9", "U+20EA",
      "U+20EB", "U+20EC", "U+20ED", "U+20EE", "U+20EF", "U+20F0", "U+2C7C", "U+2C7D", "U+2CEF",
      "U+2CF0", "U+2CF1", "U+2D6F", "U+2D7F", "U+2DE0", "U+2DE1", "U+2DE2", "U+2DE3", "U+2DE4",
      "U+2DE5", "U+2DE6", "U+2DE7", "U+2DE8", "U+2DE9", "U+2DEA", "U+2DEB", "U+2DEC", "U+2DED",
      "U+2DEE", "U+2DEF", "U+2DF0", "U+2DF1", "U+2DF2", "U+2DF3", "U+2DF4", "U+2DF5", "U+2DF6",
      "U+2DF7", "U+2DF8", "U+2DF9", "U+2DFA", "U+2DFB", "U+2DFC", "U+2DFD", "U+2DFE", "U+2DFF",
      "U+2E2F", "U+3005", "U+302A", "U+302B", "U+302C", "U+302D", "U+3031", "U+3032", "U+3033",
      "U+3034", "U+3035", "U+303B", "U+3099", "U+309A", "U+309B", "U+309C", "U+309D", "U+309E",
      "U+30FC", "U+30FD", "U+30FE", "U+A015", "U+A4F8", "U+A4F9", "U+A4FA", "U+A4FB", "U+A4FC",
      "U+A4FD", "U+A60C", "U+A66F", "U+A670", "U+A671", "U+A672", "U+A674", "U+A675", "U+A676",
      "U+A677", "U+A678", "U+A679", "U+A67A", "U+A67B", "U+A67C", "U+A67D", "U+A67F", "U+A69C",
      "U+A69D", "U+A69E", "U+A69F", "U+A6F0", "U+A6F1", "U+A700", "U+A701", "U+A702", "U+A703",
      "U+A704", "U+A705", "U+A706", "U+A707", "U+A708", "U+A709", "U+A70A", "U+A70B", "U+A70C",
      "U+A70D", "U+A70E", "U+A70F", "U+A710", "U+A711", "U+A712", "U+A713", "U+A714", "U+A715",
      "U+A716", "U+A717", "U+A718", "U+A719", "U+A71A", "U+A71B", "U+A71C", "U+A71D", "U+A71E",
      "U+A71F", "U+A720", "U+A721", "U+A770", "U+A788", "U+A789", "U+A78A", "U+A7F2", "U+A7F3",
      "U+A7F4", "U+A7F8", "U+A7F9", "U+A802", "U+A806", "U+A80B", "U+A825", "U+A826", "U+A82C",
      "U+A8C4", "U+A8C5", "U+A8E0", "U+A8E1", "U+A8E2", "U+A8E3", "U+A8E4", "U+A8E5", "U+A8E6",
      "U+A8E7", "U+A8E8", "U+A8E9", "U+A8EA", "U+A8EB", "U+A8EC", "U+A8ED", "U+A8EE", "U+A8EF",
      "U+A8F0", "U+A8F1", "U+A8FF", "U+A926", "U+A927", "U+A928", "U+A929", "U+A92A", "U+A92B",
      "U+A92C", "U+A92D", "U+A947", "U+A948", "U+A949", "U+A94A", "U+A94B", "U+A94C", "U+A94D",
      "U+A94E", "U+A94F", "U+A950", "U+A951", "U+A980", "U+A981", "U+A982", "U+A9B3", "U+A9B6",
      "U+A9B7", "U+A9B8", "U+A9B9", "U+A9BC", "U+A9BD", "U+A9CF", "U+A9E5", "U+A9E6", "U+AA29",
      "U+AA2A", "U+AA2B", "U+AA2C", "U+AA2D", "U+AA2E", "U+AA31", "U+AA32", "U+AA35", "U+AA36",
      "U+AA43", "U+AA4C", "U+AA70", "U+AA7C", "U+AAB0", "U+AAB2", "U+AAB3", "U+AAB4", "U+AAB7",
      "U+AAB8", "U+AABE", "U+AABF", "U+AAC1", "U+AADD", "U+AAEC", "U+AAED", "U+AAF3", "U+AAF4",
      "U+AAF6", "U+AB5B", "U+AB5C", "U+AB5D", "U+AB5E", "U+AB5F", "U+AB69", "U+AB6A", "U+AB6B",
      "U+ABE5", "U+ABE8", "U+ABED", "U+FB1E", "U+FBB2", "U+FBB3", "U+FBB4", "U+FBB5", "U+FBB6",
      "U+FBB7", "U+FBB8", "U+FBB9", "U+FBBA", "U+FBBB", "U+FBBC", "U+FBBD", "U+FBBE", "U+FBBF",
      "U+FBC0", "U+FBC1", "U+FBC2", "U+FE00", "U+FE01", "U+FE02", "U+FE03", "U+FE04", "U+FE05",
      "U+FE06", "U+FE07", "U+FE08", "U+FE09", "U+FE0A", "U+FE0B", "U+FE0C", "U+FE0D", "U+FE0E",
      "U+FE0F", "U+FE13", "U+FE20", "U+FE21", "U+FE22", "U+FE23", "U+FE24", "U+FE25", "U+FE26",
      "U+FE27", "U+FE28", "U+FE29", "U+FE2A", "U+FE2B", "U+FE2C", "U+FE2D", "U+FE2E", "U+FE2F",
      "U+FE52", "U+FE55", "U+FEFF", "U+FF07", "U+FF0E", "U+FF1A", "U+FF3E", "U+FF40", "U+FF70",
      "U+FF9E", "U+FF9F", "U+FFE3", "U+FFF9", "U+FFFA", "U+FFFB", "U+101FD", "U+102E0",
      "U+10376", "U+10377", "U+10378", "U+10379", "U+1037A", "U+10780", "U+10781", "U+10782",
      "U+10783", "U+10784", "U+10785", "U+10787", "U+10788", "U+10789", "U+1078A", "U+1078B",
      "U+1078C", "U+1078D", "U+1078E", "U+1078F", "U+10790", "U+10791", "U+10792", "U+10793",
      "U+10794", "U+10795", "U+10796", "U+10797", "U+10798", "U+10799", "U+1079A", "U+1079B",
      "U+1079C", "U+1079D", "U+1079E", "U+1079F", "U+107A0", "U+107A1", "U+107A2", "U+107A3",
      "U+107A4", "U+107A5", "U+107A6", "U+107A7", "U+107A8", "U+107A9", "U+107AA", "U+107AB",
      "U+107AC", "U+107AD", "U+107AE", "U+107AF", "U+107B0", "U+107B2", "U+107B3", "U+107B4",
      "U+107B5", "U+107B6", "U+107B7", "U+107B8", "U+107B9", "U+107BA", "U+10A01", "U+10A02",
      "U+10A03", "U+10A05", "U+10A06", "U+10A0C", "U+10A0D", "U+10A0E", "U+10A0F", "U+10A38",
      "U+10A39", "U+10A3A", "U+10A3F", "U+10AE5", "U+10AE6", "U+10D24", "U+10D25", "U+10D26",
      "U+10D27", "U+10EAB", "U+10EAC", "U+10F46", "U+10F47", "U+10F48", "U+10F49", "U+10F4A",
      "U+10F4B", "U+10F4C", "U+10F4D", "U+10F4E", "U+10F4F", "U+10F50", "U+10F82", "U+10F83",
      "U+10F84", "U+10F85", "U+11001", "U+11038", "U+11039", "U+1103A", "U+1103B", "U+1103C",
      "U+1103D", "U+1103E", "U+1103F", "U+11040", "U+11041", "U+11042", "U+11043", "U+11044",
      "U+11045", "U+11046", "U+11070", "U+11073", "U+11074", "U+1107F", "U+11080", "U+11081",
      "U+110B3", "U+110B4", "U+110B5", "U+110B6", "U+110B9", "U+110BA", "U+110BD", "U+110C2",
      "U+110CD", "U+11100", "U+11101", "U+11102", "U+11127", "U+11128", "U+11129", "U+1112A",
      "U+1112B", "U+1112D", "U+1112E", "U+1112F", "U+11130", "U+11131", "U+11132", "U+11133",
      "U+11134", "U+11173", "U+11180", "U+11181", "U+111B6", "U+111B7", "U+111B8", "U+111B9",
      "U+111BA", "U+111BB", "U+111BC", "U+111BD", "U+111BE", "U+111C9", "U+111CA", "U+111CB",
      "U+111CC", "U+111CF", "U+1122F", "U+11230", "U+11231", "U+11234", "U+11236", "U+11237",
      "U+1123E", "U+112DF", "U+112E3", "U+112E4", "U+112E5", "U+112E6", "U+112E7", "U+112E8",
      "U+112E9", "U+112EA", "U+11300", "U+11301", "U+1133B", "U+1133C", "U+11340", "U+11366",
      "U+11367", "U+11368", "U+11369", "U+1136A", "U+1136B", "U+1136C", "U+11370", "U+11371",
      "U+11372", "U+11373", "U+11374", "U+11438", "U+11439", "U+1143A", "U+1143B", "U+1143C",
      "U+1143D", "U+1143E", "U+1143F", "U+11442", "U+11443", "U+11444", "U+11446", "U+1145E",
      "U+114B3", "U+114B4", "U+114B5", "U+114B6", "U+114B7", "U+114B8", "U+114BA", "U+114BF",
      "U+114C0", "U+114C2", "U+114C3", "U+115B2", "U+115B3", "U+115B4", "U+115B5", "U+115BC",
      "U+115BD", "U+115BF", "U+115C0", "U+115DC", "U+115DD", "U+11633", "U+11634", "U+11635",
      "U+11636", "U+11637", "U+11638", "U+11639", "U+1163A", "U+1163D", "U+1163F", "U+11640",
      "U+116AB", "U+116AD", "U+116B0", "U+116B1", "U+116B2", "U+116B3", "U+116B4", "U+116B5",
      "U+116B7", "U+1171D", "U+1171E", "U+1171F", "U+11722", "U+11723", "U+11724", "U+11725",
      "U+11727", "U+11728", "U+11729", "U+1172A", "U+1172B", "U+1182F", "U+11830", "U+11831",
      "U+11832", "U+11833", "U+11834", "U+11835", "U+11836", "U+11837", "U+11839", "U+1183A",
      "U+1193B", "U+1193C", "U+1193E", "U+11943", "U+119D4", "U+119D5", "U+119D6", "U+119D7",
      "U+119DA", "U+119DB", "U+119E0", "U+11A01", "U+11A02", "U+11A03", "U+11A04", "U+11A05",
      "U+11A06", "U+11A07", "U+11A08", "U+11A09", "U+11A0A", "U+11A33", "U+11A34", "U+11A35",
      "U+11A36", "U+11A37", "U+11A38", "U+11A3B", "U+11A3C", "U+11A3D", "U+11A3E", "U+11A47",
      "U+11A51", "U+11A52", "U+11A53", "U+11A54", "U+11A55", "U+11A56", "U+11A59", "U+11A5A",
      "U+11A5B", "U+11A8A", "U+11A8B", "U+11A8C", "U+11A8D", "U+11A8E", "U+11A8F", "U+11A90",
      "U+11A91", "U+11A92", "U+11A93", "U+11A94", "U+11A95", "U+11A96", "U+11A98", "U+11A99",
      "U+11C30", "U+11C31", "U+11C32", "U+11C33", "U+11C34", "U+11C35", "U+11C36", "U+11C38",
      "U+11C39", "U+11C3A", "U+11C3B", "U+11C3C", "U+11C3D", "U+11C3F", "U+11C92", "U+11C93",
      "U+11C94", "U+11C95", "U+11C96", "U+11C97", "U+11C98", "U+11C99", "U+11C9A", "U+11C9B",
      "U+11C9C", "U+11C9D", "U+11C9E", "U+11C9F", "U+11CA0", "U+11CA1", "U+11CA2", "U+11CA3",
      "U+11CA4", "U+11CA5", "U+11CA6", "U+11CA7", "U+11CAA", "U+11CAB", "U+11CAC", "U+11CAD",
      "U+11CAE", "U+11CAF", "U+11CB0", "U+11CB2", "U+11CB3", "U+11CB5", "U+11CB6", "U+11D31",
      "U+11D32", "U+11D33", "U+11D34", "U+11D35", "U+11D36", "U+11D3A", "U+11D3C", "U+11D3D",
      "U+11D3F", "U+11D40", "U+11D41", "U+11D42", "U+11D43", "U+11D44", "U+11D45", "U+11D47",
      "U+11D90", "U+11D91", "U+11D95", "U+11D97", "U+11EF3", "U+11EF4", "U+13430", "U+13431",
      "U+13432", "U+13433", "U+13434", "U+13435", "U+13436", "U+13437", "U+13438", "U+16AF0",
      "U+16AF1", "U+16AF2", "U+16AF3", "U+16AF4", "U+16B30", "U+16B31", "U+16B32", "U+16B33",
      "U+16B34", "U+16B35", "U+16B36", "U+16B40", "U+16B41", "U+16B42", "U+16B43", "U+16F4F",
      "U+16F8F", "U+16F90", "U+16F91", "U+16F92", "U+16F93", "U+16F94", "U+16F95", "U+16F96",
      "U+16F97", "U+16F98", "U+16F99", "U+16F9A", "U+16F9B", "U+16F9C", "U+16F9D", "U+16F9E",
      "U+16F9F", "U+16FE0", "U+16FE1", "U+16FE3", "U+16FE4", "U+1AFF0", "U+1AFF1", "U+1AFF2",
      "U+1AFF3", "U+1AFF5", "U+1AFF6", "U+1AFF7", "U+1AFF8", "U+1AFF9", "U+1AFFA", "U+1AFFB",
      "U+1AFFD", "U+1AFFE", "U+1BC9D", "U+1BC9E", "U+1BCA0", "U+1BCA1", "U+1BCA2", "U+1BCA3",
      "U+1CF00", "U+1CF01", "U+1CF02", "U+1CF03", "U+1CF04", "U+1CF05", "U+1CF06", "U+1CF07",
      "U+1CF08", "U+1CF09", "U+1CF0A", "U+1CF0B", "U+1CF0C", "U+1CF0D", "U+1CF0E", "U+1CF0F",
      "U+1CF10", "U+1CF11", "U+1CF12", "U+1CF13", "U+1CF14", "U+1CF15", "U+1CF16", "U+1CF17",
      "U+1CF18", "U+1CF19", "U+1CF1A", "U+1CF1B", "U+1CF1C", "U+1CF1D", "U+1CF1E", "U+1CF1F",
      "U+1CF20", "U+1CF21", "U+1CF22", "U+1CF23", "U+1CF24", "U+1CF25", "U+1CF26", "U+1CF27",
      "U+1CF28", "U+1CF29", "U+1CF2A", "U+1CF2B", "U+1CF2C", "U+1CF2D", "U+1CF30", "U+1CF31",
      "U+1CF32", "U+1CF33", "U+1CF34", "U+1CF35", "U+1CF36", "U+1CF37", "U+1CF38", "U+1CF39",
      "U+1CF3A", "U+1CF3B", "U+1CF3C", "U+1CF3D", "U+1CF3E", "U+1CF3F", "U+1CF40", "U+1CF41",
      "U+1CF42", "U+1CF43", "U+1CF44", "U+1CF45", "U+1CF46", "U+1D167", "U+1D168", "U+1D169",
      "U+1D173", "U+1D174", "U+1D175", "U+1D176", "U+1D177", "U+1D178", "U+1D179", "U+1D17A",
      "U+1D17B", "U+1D17C", "U+1D17D", "U+1D17E", "U+1D17F", "U+1D180", "U+1D181", "U+1D182",
      "U+1D185", "U+1D186", "U+1D187", "U+1D188", "U+1D189", "U+1D18A", "U+1D18B", "U+1D1AA",
      "U+1D1AB", "U+1D1AC", "U+1D1AD", "U+1D242", "U+1D243", "U+1D244", "U+1DA00", "U+1DA01",
      "U+1DA02", "U+1DA03", "U+1DA04", "U+1DA05", "U+1DA06", "U+1DA07", "U+1DA08", "U+1DA09",
      "U+1DA0A", "U+1DA0B", "U+1DA0C", "U+1DA0D", "U+1DA0E", "U+1DA0F", "U+1DA10", "U+1DA11",
      "U+1DA12", "U+1DA13", "U+1DA14", "U+1DA15", "U+1DA16", "U+1DA17", "U+1DA18", "U+1DA19",
      "U+1DA1A", "U+1DA1B", "U+1DA1C", "U+1DA1D", "U+1DA1E", "U+1DA1F", "U+1DA20", "U+1DA21",
      "U+1DA22", "U+1DA23", "U+1DA24", "U+1DA25", "U+1DA26", "U+1DA27", "U+1DA28", "U+1DA29",
      "U+1DA2A", "U+1DA2B", "U+1DA2C", "U+1DA2D", "U+1DA2E", "U+1DA2F", "U+1DA30", "U+1DA31",
      "U+1DA32", "U+1DA33", "U+1DA34", "U+1DA35", "U+1DA36", "U+1DA3B", "U+1DA3C", "U+1DA3D",
      "U+1DA3E", "U+1DA3F", "U+1DA40", "U+1DA41", "U+1DA42", "U+1DA43", "U+1DA44", "U+1DA45",
      "U+1DA46", "U+1DA47", "U+1DA48", "U+1DA49", "U+1DA4A", "U+1DA4B", "U+1DA4C", "U+1DA4D",
      "U+1DA4E", "U+1DA4F", "U+1DA50", "U+1DA51", "U+1DA52", "U+1DA53", "U+1DA54", "U+1DA55",
      "U+1DA56", "U+1DA57", "U+1DA58", "U+1DA59", "U+1DA5A", "U+1DA5B", "U+1DA5C", "U+1DA5D",
      "U+1DA5E", "U+1DA5F", "U+1DA60", "U+1DA61", "U+1DA62", "U+1DA63", "U+1DA64", "U+1DA65",
      "U+1DA66", "U+1DA67", "U+1DA68", "U+1DA69", "U+1DA6A", "U+1DA6B", "U+1DA6C", "U+1DA75",
      "U+1DA84", "U+1DA9B", "U+1DA9C", "U+1DA9D", "U+1DA9E", "U+1DA9F", "U+1DAA1", "U+1DAA2",
      "U+1DAA3", "U+1DAA4", "U+1DAA5", "U+1DAA6", "U+1DAA7", "U+1DAA8", "U+1DAA9", "U+1DAAA",
      "U+1DAAB", "U+1DAAC", "U+1DAAD", "U+1DAAE", "U+1DAAF", "U+1E000", "U+1E001", "U+1E002",
      "U+1E003", "U+1E004", "U+1E005", "U+1E006", "U+1E008", "U+1E009", "U+1E00A", "U+1E00B",
      "U+1E00C", "U+1E00D", "U+1E00E", "U+1E00F", "U+1E010", "U+1E011", "U+1E012", "U+1E013",
      "U+1E014", "U+1E015", "U+1E016", "U+1E017", "U+1E018", "U+1E01B", "U+1E01C", "U+1E01D",
      "U+1E01E", "U+1E01F", "U+1E020", "U+1E021", "U+1E023", "U+1E024", "U+1E026", "U+1E027",
      "U+1E028", "U+1E029", "U+1E02A", "U+1E130", "U+1E131", "U+1E132", "U+1E133", "U+1E134",
      "U+1E135", "U+1E136", "U+1E137", "U+1E138", "U+1E139", "U+1E13A", "U+1E13B", "U+1E13C",
      "U+1E13D", "U+1E2AE", "U+1E2EC", "U+1E2ED", "U+1E2EE", "U+1E2EF", "U+1E8D0", "U+1E8D1",
      "U+1E8D2", "U+1E8D3", "U+1E8D4", "U+1E8D5", "U+1E8D6", "U+1E944", "U+1E945", "U+1E946",
      "U+1E947", "U+1E948", "U+1E949", "U+1E94A", "U+1E94B", "U+1F3FB", "U+1F3FC", "U+1F3FD",
      "U+1F3FE", "U+1F3FF", "U+E0001", "U+E0020", "U+E0021", "U+E0022", "U+E0023", "U+E0024",
      "U+E0025", "U+E0026", "U+E0027", "U+E0028", "U+E0029", "U+E002A", "U+E002B", "U+E002C",
      "U+E002D", "U+E002E", "U+E002F", "U+E0030", "U+E0031", "U+E0032", "U+E0033", "U+E0034",
      "U+E0035", "U+E0036", "U+E0037", "U+E0038", "U+E0039", "U+E003A", "U+E003B", "U+E003C",
      "U+E003D", "U+E003E", "U+E003F", "U+E0040", "U+E0041", "U+E0042", "U+E0043", "U+E0044",
      "U+E0045", "U+E0046", "U+E0047", "U+E0048", "U+E0049", "U+E004A", "U+E004B", "U+E004C",
      "U+E004D", "U+E004E", "U+E004F", "U+E0050", "U+E0051", "U+E0052", "U+E0053", "U+E0054",
      "U+E0055", "U+E0056", "U+E0057", "U+E0058", "U+E0059", "U+E005A", "U+E005B", "U+E005C",
      "U+E005D", "U+E005E", "U+E005F", "U+E0060", "U+E0061", "U+E0062", "U+E0063", "U+E0064",
      "U+E0065", "U+E0066", "U+E0067", "U+E0068", "U+E0069", "U+E006A", "U+E006B", "U+E006C",
      "U+E006D", "U+E006E", "U+E006F", "U+E0070", "U+E0071", "U+E0072", "U+E0073", "U+E0074",
      "U+E0075", "U+E0076", "U+E0077", "U+E0078", "U+E0079", "U+E007A", "U+E007B", "U+E007C",
      "U+E007D", "U+E007E", "U+E007F", "U+E0100", "U+E0101", "U+E0102", "U+E0103", "U+E0104",
      "U+E0105", "U+E0106", "U+E0107", "U+E0108", "U+E0109", "U+E010A", "U+E010B", "U+E010C",
      "U+E010D", "U+E010E", "U+E010F", "U+E0110", "U+E0111", "U+E0112", "U+E0113", "U+E0114",
      "U+E0115", "U+E0116", "U+E0117", "U+E0118", "U+E0119", "U+E011A", "U+E011B", "U+E011C",
      "U+E011D", "U+E011E", "U+E011F", "U+E0120", "U+E0121", "U+E0122", "U+E0123", "U+E0124",
      "U+E0125", "U+E0126", "U+E0127", "U+E0128", "U+E0129", "U+E012A", "U+E012B", "U+E012C",
      "U+E012D", "U+E012E", "U+E012F", "U+E0130", "U+E0131", "U+E0132", "U+E0133", "U+E0134",
      "U+E0135", "U+E0136", "U+E0137", "U+E0138", "U+E0139", "U+E013A", "U+E013B", "U+E013C",
      "U+E013D", "U+E013E", "U+E013F", "U+E0140", "U+E0141", "U+E0142", "U+E0143", "U+E0144",
      "U+E0145", "U+E0146", "U+E0147", "U+E0148", "U+E0149", "U+E014A", "U+E014B", "U+E014C",
      "U+E014D", "U+E014E", "U+E014F", "U+E0150", "U+E0151", "U+E0152", "U+E0153", "U+E0154",
      "U+E0155", "U+E0156", "U+E0157", "U+E0158", "U+E0159", "U+E015A", "U+E015B", "U+E015C",
      "U+E015D", "U+E015E", "U+E015F", "U+E0160", "U+E0161", "U+E0162", "U+E0163", "U+E0164",
      "U+E0165", "U+E0166", "U+E0167", "U+E0168", "U+E0169", "U+E016A", "U+E016B", "U+E016C",
      "U+E016D", "U+E016E", "U+E016F", "U+E0170", "U+E0171", "U+E0172", "U+E0173", "U+E0174",
      "U+E0175", "U+E0176", "U+E0177", "U+E0178", "U+E0179", "U+E017A", "U+E017B", "U+E017C",
      "U+E017D", "U+E017E", "U+E017F", "U+E0180", "U+E0181", "U+E0182", "U+E0183", "U+E0184",
      "U+E0185", "U+E0186", "U+E0187", "U+E0188", "U+E0189", "U+E018A", "U+E018B", "U+E018C",
      "U+E018D", "U+E018E", "U+E018F", "U+E0190", "U+E0191", "U+E0192", "U+E0193", "U+E0194",
      "U+E0195", "U+E0196", "U+E0197", "U+E0198", "U+E0199", "U+E019A", "U+E019B", "U+E019C",
      "U+E019D", "U+E019E", "U+E019F", "U+E01A0", "U+E01A1", "U+E01A2", "U+E01A3", "U+E01A4",
      "U+E01A5", "U+E01A6", "U+E01A7", "U+E01A8", "U+E01A9", "U+E01AA", "U+E01AB", "U+E01AC",
      "U+E01AD", "U+E01AE", "U+E01AF", "U+E01B0", "U+E01B1", "U+E01B2", "U+E01B3", "U+E01B4",
      "U+E01B5", "U+E01B6", "U+E01B7", "U+E01B8", "U+E01B9", "U+E01BA", "U+E01BB", "U+E01BC",
      "U+E01BD", "U+E01BE", "U+E01BF", "U+E01C0", "U+E01C1", "U+E01C2", "U+E01C3", "U+E01C4",
      "U+E01C5", "U+E01C6", "U+E01C7", "U+E01C8", "U+E01C9", "U+E01CA", "U+E01CB", "U+E01CC",
      "U+E01CD", "U+E01CE", "U+E01CF", "U+E01D0", "U+E01D1", "U+E01D2", "U+E01D3", "U+E01D4",
      "U+E01D5", "U+E01D6", "U+E01D7", "U+E01D8", "U+E01D9", "U+E01DA", "U+E01DB", "U+E01DC",
      "U+E01DD", "U+E01DE", "U+E01DF", "U+E01E0", "U+E01E1", "U+E01E2", "U+E01E3", "U+E01E4",
      "U+E01E5", "U+E01E6", "U+E01E7", "U+E01E8", "U+E01E9", "U+E01EA", "U+E01EB", "U+E01EC",
      "U+E01ED", "U+E01EE", "U+E01EF"}

LowerMap ==
    [c \in Range(UpperChars) |->
        LowerChars[CHOOSE i \in DOMAIN UpperChars : UpperChars[i] = c]]

\* str.lower() of a string of one character: the capital I with dot above
\* becomes two characters
LowerChar(c) ==
    IF c = "U+0130" THEN <<"i", "U+0307">>
    ELSE IF c \in DOMAIN LowerMap THEN <<LowerMap[c]>>
    ELSE <<c>>

\* is the capital sigma at position i the last letter of a word? A cased
\* letter comes before it and none after it, case-ignorable characters
\* between them being skipped
FinalSigma(str, i) ==
    /\ \E j \in 1..(i - 1) :
         /\ str[j] \in Cased
         /\ \A k \in (j + 1)..(i - 1) : str[k] \in CaseIgnorable
    /\ ~ \E j \in (i + 1)..Len(str) :
           /\ str[j] \in Cased
           /\ \A k \in (i + 1)..(j - 1) : str[k] \in CaseIgnorable

\* str.lower() from position i on
RECURSIVE LowerFrom(_, _)
LowerFrom(str, i) ==
    IF i > Len(str) THEN <<>>
    ELSE (IF str[i] = "U+03A3"
          THEN (IF FinalSigma(str, i) THEN <<"U+03C2">> ELSE <<"U+03C3">>)
          ELSE LowerChar(str[i]))
         \o LowerFrom(str, i + 1)

\* str.lower() (line 71)
Lower(str) == LowerFrom(str, 1)

ClassA == {"á", "à", "ả", "ã", "ạ", "â", "ấ", "ầ", "ẩ", "ẫ", "ậ", "U+0103", "ắ", "ằ", "ẳ", "ẵ", "ặ"}
ClassE == {"é", "è", "ẻ", "ẽ", "ẹ", "ê", "ế", "ề", "ể", "ễ", "ệ"}
ClassI == {"í", "ì", "ỉ", "U+0129", "ị"}
ClassO == {"ó", "ò", "ỏ", "õ", "ọ", "ô", "ố", "ồ", "ổ", "ỗ", "ộ", "ơ", "ớ", "ờ", "ở", "ỡ", "ợ"}
ClassU == {"ú", "ù", "ủ", "U+0169", "ụ", "ư", "ứ", "ừ", "ử", "ữ", "ự"}
ClassY == {"ý", "ỳ", "ỷ", "ỹ", "ỵ"}
AlphaNum ==
    {"a", "b", "c", "d", "e", "f", "g", "h", "i", "j", "k", "l", "m", "n", "o", "p", "q", "r", "s", "t", "u", "v", "w", "x", "y", "z", "0", "1", "2", "3", "4", "5", "6", "7", "8", "9"}

\* the replace() calls and the six substitutions, for one lower-case character
BaseChar(c) ==
    IF c = "U+0111" THEN "d"
    ELSE IF c \in ClassA THEN "a"
    ELSE IF c \in ClassE THEN "e"
    ELSE IF c \in ClassI THEN "i"
    ELSE IF c \in ClassO THEN "o"
    ELSE IF c \in ClassU THEN "u"
    ELSE IF c \in ClassY THEN "y"
    ELSE c

\* re.sub(r"[^a-z0-9]", "", str)
RECURSIVE StripNonAlnum(_)
StripNonAlnum(str) ==
    IF str = <<>> THEN <<>>
    ELSE (IF Head(str) \in AlphaNum THEN <<Head(str)>> ELSE <<>>)
         \o StripNonAlnum(Tail(str))

\* a normalization that folds no diacritic: lower case, then the strip
normalize_without_folding(name) == StripNonAlnum(Lower(name))

\* the characters of str, each through BaseChar
Folded(str) == [i \in DOMAIN str |-> BaseChar(str[i])]

normalize_column_name(name) == StripNonAlnum(Folded(Lower(name)))

\* the characters \s matches in a pattern that is a str
WhiteSpace ==
    {"\t", "\n", "U+000B", "\f", "\r", "U+001C", "U+001D", "U+001E", "U+001F",
     " ", "U+0085", "U+00A0", "U+1680", "U+2000", "U+2001", "U+2002", "U+2003",
     "U+2004", "U+2005", "U+2006", "U+2007", "U+2008", "U+2009", "U+200A",
     "U+2028", "U+2029", "U+202F", "U+205F", "U+3000"}

\* does the pattern, from position i on, match str at position j?
\* The patterns of the code are made of literal characters, \s* and .*
RECURSIVE ReMatchHere(_, _, _, _)
ReMatchHere(pat, i, str, j) ==
    IF i > Len(pat) THEN TRUE
    ELSE IF i + 2 <= Len(pat) /\ pat[i] = "\\" /\ pat[i + 1] = "s" /\ pat[i + 2] = "*"
    THEN \E k \in j..(Len(str) + 1) :
            /\ \A m \in j..(k - 1) : str[m] \in WhiteSpace
            /\ ReMatchHere(pat, i + 3, str, k)
    ELSE IF i + 1 <= Len(pat) /\ pat[i] = "." /\ pat[i + 1] = "*"
    THEN \E k \in j..(Len(str) + 1) :
            /\ \A m \in j..(k - 1) : str[m] # "\n"
            /\ ReMatchHere(pat, i + 2, str, k)
    ELSE /\ j <= Len(str)
         /\ str[j] = pat[i]
         /\ ReMatchHere(pat, i + 1, str, j + 1)

\* re.search(pat, str)
ReSearch(pat, str) == \E j \in 1..(Len(str) + 1) : ReMatchHere(pat, 1, str, j)

-----------------------------------------------------------------------------
(* The pattern families of __init__                                         *)

old_code_patterns ==
    << <<"m", "ã", "\\", "s", "*", "g", "ố", "c">>,
       <<"m", "a", "\\", "s", "*", "g", "o", "c">>,
       <<"o", "l", "d", ".", "*", "c", "o", "d", "e">>,
       <<"c", "o", "d", "e", ".", "*", "o", "l", "d">>,
       <<"m", "ã", "\\", "s", "*", "c", "U+0169">>,
       <<"m", "a", "\\", "s", "*", "c", "u">> >>

old_name_patterns ==
    << <<"t", "ê", "n", "\\", "s", "*", "g", "ố", "c">>,
       <<"t", "e", "n", "\\", "s", "*", "g", "o", "c">>,
       <<"o", "l", "d", ".", "*", "n", "a", "m", "e">>,
       <<"n", "a", "m", "e", ".", "*", "o", "l", "d">>,
       <<"t", "ê", "n", "\\", "s", "*", "c", "U+0169">>,
       <<"t", "e", "n", "\\", "s", "*", "c", "u">> >>

new_code_patterns ==
    << <<"m", "ã", "\\", "s", "*", "m", "ớ", "i">>,
       <<"m", "a", "\\", "s", "*", "m", "o", "i">>,
       <<"n", "e", "w", ".", "*", "c", "o", "d", "e">>,
       <<"c", "o", "d", "e", ".", "*", "n", "e", "w">>,
       <<"m", "ã", "\\", "s", "*", "t", "h", "a", "y">>,
       <<"m", "a", "\\", "s", "*", "t", "h", "a", "y">> >>

new_name_patterns ==
    << <<"t", "ê", "n", "\\", "s", "*", "m", "ớ", "i">>,
       <<"t", "e", "n", "\\", "s", "*", "m", "o", "i">>,
       <<"n", "e", "w", ".", "*", "n", "a", "m", "e">>,
       <<"n", "a", "m", "e", ".", "*", "n", "e", "w">>,
       <<"t", "ê", "n", "\\", "s", "*", "t", "h", "a", "y">>,
       <<"t", "e", "n", "\\", "s", "*", "t", "h", "a", "y">> >>

\* "Mã hàng", "Tên hàng" and the two helper columns of process_to_buffer
MaHang == <<"M", "ã", " ", "h", "à", "n", "g">>
TenHang == <<"T", "ê", "n", " ", "h", "à", "n", "g">>
MaHangMoi == <<"M", "ã", " ", "h", "à", "n", "g", "_", "m", "ớ", "i">>
TenHangMoi == <<"T", "ê", "n", " ", "h", "à", "n", "g", "_", "m", "ớ", "i">>

\* the patterns _load_data_file adds to the families
data_code_patterns ==
    old_code_patterns \o << <<"m", "a", ".", "*", "h", "a", "n", "g">>, <<"c", "o", "d", "e">> >>
data_name_patterns ==
    old_name_patterns \o << <<"t", "e", "n", ".", "*", "h", "a", "n", "g">>, <<"n", "a", "m", "e">> >>

-----------------------------------------------------------------------------
(* _find_column_by_pattern                                                  *)

\* a header cell that holds a number: read_excel keeps it as an int label,
\* dtype=str converting the cells below the header row only
Year2024 == <<"int", "2024">>

\* the label is a str
IsText(label) == label = <<>> \/ label[1] # "int"

\* line 91 normalizes every label before any pattern is tried, and
\* name.lower() (line 71) raises AttributeError on a label that is no str
Normalizable(columns) == \A i \in DOMAIN columns : IsText(columns[i])

\* the AttributeError, logged and raised again by the loader named
AttributeErrorIn(loader, columns) ==
    [raised |-> TRUE,
     error |-> [type |-> "AttributeError", in |-> loader,
                missing |-> <<>>, columns |-> columns]]

\* normalized_columns[norm] = original, on the items of the dict in order:
\* a key keeps the place of its first insertion and takes the last value
PutItem(items, norm, original) ==
    IF \E k \in DOMAIN items : items[k].norm = norm
    THEN [k \in DOMAIN items |->
            IF items[k].norm = norm
            THEN [norm |-> norm, original |-> original] ELSE items[k]]
    ELSE Append(items, [norm |-> norm, original |-> original])

\* {normalize(col): col for col in columns}
RECURSIVE NormalizedColumns(_, _, _)
NormalizedColumns(columns, i, items) ==
    IF i > Len(columns) THEN items
    ELSE NormalizedColumns(columns, i + 1,
            PutItem(items, normalize_column_name(columns[i]), columns[i]))

\* the first element of hits, or what the rest of the loop returns
FirstOr(hits, rest) == IF hits # <<>> THEN hits[1] ELSE rest

\* the items whose normalized header the pattern matches
NormalizedHits(items, pattern) ==
    WhereTrue([k \in DOMAIN items |-> ReSearch(pattern, items[k].norm)], 1)

\* the original headers of the items at the positions hits
OriginalsAt(items, hits) == [k \in DOMAIN hits |-> items[hits[k]].original]

\* the first loop: the patterns in order, each against the normalized headers
RECURSIVE SearchNormalized(_, _, _)
SearchNormalized(items, patterns, p) ==
    IF p > Len(patterns) THEN None
    ELSE FirstOr(OriginalsAt(items, NormalizedHits(items, Lower(patterns[p]))),
                 SearchNormalized(items, patterns, p + 1))

\* the headers that hold the pattern as a substring, case ignored
RawHits(columns, pattern) ==
    WhereTrue([k \in DOMAIN columns |-> Contains(Lower(columns[k]), pattern)], 1)

\* the headers at the positions hits
ElementsAt(columns, hits) == [k \in DOMAIN hits |-> columns[hits[k]]]

\* a second loop that reads the headers in order and tries every pattern
\* on each, p counting the headers
RECURSIVE SearchRawByHeader(_, _, _)
SearchRawByHeader(columns, patterns, p) ==
    IF p > Len(columns) THEN None
    ELSE IF \E q \in DOMAIN patterns : Contains(Lower(columns[p]), Lower(patterns[q]))
    THEN columns[p]
    ELSE SearchRawByHeader(columns, patterns, p + 1)

\* the second loop: the patterns in order, each as a substring of the headers
RECURSIVE SearchRaw(_, _, _)
SearchRaw(columns, patterns, p) ==
    IF p > Len(patterns) THEN None
    ELSE FirstOr(ElementsAt(columns, RawHits(columns, Lower(patterns[p]))),
                 SearchRaw(columns, patterns, p + 1))

\* the result of the first loop, or else that of the second
OrElse(found, other) == IF found # None THEN found ELSE other

find_column_by_pattern(columns, patterns) ==
    OrElse(SearchNormalized(NormalizedColumns(columns, 1, <<>>), patterns, 1),
           SearchRaw(columns, patterns, 1))

-----------------------------------------------------------------------------
(* _identify_mapping_columns                                                *)

\* "Mã gốc", "Tên gốc", "Mã mới", "Tên mới": the names of the logical columns
\* in the list of missing columns
MissingCols(old_code_col, old_name_col, new_code_col, new_name_col) ==
    (IF ~Truthy(old_code_col) THEN <<"Mã gốc">> ELSE <<>>)
    \o (IF ~Truthy(old_name_col) THEN <<"Tên gốc">> ELSE <<>>)
    \o (IF ~Truthy(new_code_col) THEN <<"Mã mới">> ELSE <<>>)
    \o (IF ~Truthy(new_name_col) THEN <<"Tên mới">> ELSE <<>>)

\* a resolution whose fallback is taken: the first four columns when a
\* logical column is missing and the sheet has 4 columns or more
ResolveMappingWithFallback(columns, found, missing_cols) ==
    IF missing_cols # <<>>
    THEN IF Len(columns) >= 4
         THEN [raised |-> FALSE,
               column_mapping |-> [old_code |-> columns[1], old_name |-> columns[2],
                                   new_code |-> columns[3], new_name |-> columns[4]]]
         ELSE [raised |-> TRUE,
               error |-> [type |-> "ValueError", in |-> "_identify_mapping_columns",
                          missing |-> missing_cols, columns |-> columns]]
    ELSE [raised |-> FALSE, column_mapping |-> found]

\* lines 125-146: [raised |-> FALSE, column_mapping |-> ...], or the
\* ValueError raised
ResolveMapping(columns, found, missing_cols) ==
    IF missing_cols # <<>>
    THEN IF Len(columns) >= 4 /\ missing_cols = <<>>
         THEN [raised |-> FALSE,
               column_mapping |-> [old_code |-> columns[1], old_name |-> columns[2],
                                   new_code |-> columns[3], new_name |-> columns[4]]]
         ELSE [raised |-> TRUE,
               error |-> [type |-> "ValueError", in |-> "_identify_mapping_columns",
                          missing |-> missing_cols, columns |-> columns]]
    ELSE [raised |-> FALSE, column_mapping |-> found]

\* lines 115-123, the four columns being what the patterns found
WithMissing(columns, old_code_col, old_name_col, new_code_col, new_name_col) ==
    ResolveMapping(columns,
                   [old_code |-> old_code_col, old_name |-> old_name_col,
                    new_code |-> new_code_col, new_name |-> new_name_col],
                   MissingCols(old_code_col, old_name_col, new_code_col, new_name_col))

identify_mapping_columns(columns) ==
    IF ~Normalizable(columns)
    THEN AttributeErrorIn("_identify_mapping_columns", columns)
    ELSE WithMissing(columns,
                     find_column_by_pattern(columns, old_code_patterns),
                     find_column_by_pattern(columns, old_name_patterns),
                     find_column_by_pattern(columns, new_code_patterns),
                     find_column_by_pattern(columns, new_name_patterns))

-----------------------------------------------------------------------------
(* _load_data_file, after read_excel                                        *)

\* the code column found by pattern, renamed, or the ValueError
RenameCodeColumn(columns, code_col) ==
    IF Truthy(code_col)
    THEN [raised |-> FALSE,
          columns |-> [i \in DOMAIN columns |->
                         IF columns[i] = code_col THEN MaHang ELSE columns[i]]]
    ELSE [raised |-> TRUE,
          error |-> [type |-> "ValueError", in |-> "_load_data_file",
                     missing |-> <<"Mã hàng">>, columns |-> columns]]

\* lines 174-187: the headers after the renaming of the code column, or
\* the exception
ResolveCodeColumn(columns) ==
    IF \A i \in DOMAIN columns : columns[i] # MaHang
    THEN IF ~Normalizable(columns)
         THEN AttributeErrorIn("_load_data_file", columns)
         ELSE RenameCodeColumn(columns,
                               find_column_by_pattern(columns, data_code_patterns))
    ELSE [raised |-> FALSE, columns |-> columns]

\* the name column found by pattern, renamed, or the headers as they are
RenameNameColumn(columns, name_col) ==
    [raised |-> FALSE,
     columns |-> IF Truthy(name_col)
                 THEN [i \in DOMAIN columns |->
                         IF columns[i] = name_col THEN TenHang ELSE columns[i]]
                 ELSE columns]

\* lines 189-195: the headers after the renaming of the name column, or
\* the exception
ResolveNameColumn(columns) ==
    IF \A i \in DOMAIN columns : columns[i] # TenHang
    THEN IF ~Normalizable(columns)
         THEN AttributeErrorIn("_load_data_file", columns)
         ELSE RenameNameColumn(columns,
                               find_column_by_pattern(columns, data_name_patterns))
    ELSE [raised |-> FALSE, columns |-> columns]

\* the name column after the code column
ThenNameColumn(coded) ==
    IF coded.raised THEN coded ELSE ResolveNameColumn(coded.columns)

\* the headers of the frame _load_data_file returns, or the exception
load_data_file(columns) == ThenNameColumn(ResolveCodeColumn(columns))

-----------------------------------------------------------------------------
(* The loops of process_to_buffer                                           *)

\* df.fillna("")
FillNa(df) ==
    [df EXCEPT !.rows =
        [r \in DOMAIN df.rows |->
            [c \in DOMAIN df.rows[r] |->
                IF IsNa(df.rows[r][c]) THEN Empty ELSE df.rows[r][c]]]]

\* the rows whose "Mã hàng_mới" is missing or empty, in order
UnmatchedIndices(df) ==
    WhereTrue([r \in DOMAIN df.rows |->
                 IsNa(Column(df, MaHangMoi)[r]) \/ Column(df, MaHangMoi)[r] = Empty], 1)

\* lines 318-321: one row of the mapping sheet entered in the dictionary
ReversePut(d, new_code, old_code) ==
    IF NotNa(new_code) /\ new_code # Empty THEN DictSet(d, new_code, old_code) ELSE d

\* reverse_code_mapping, row by row
RECURSIVE ReverseMapping(_, _, _, _, _)
ReverseMapping(mdf, new_code_col, old_code_col, r, d) ==
    IF r > Len(mdf.rows) THEN d
    ELSE ReverseMapping(mdf, new_code_col, old_code_col, r + 1,
            ReversePut(d, Column(mdf, new_code_col)[r], Column(mdf, old_code_col)[r]))

\* lines 336-342 and 369-375: the helper cells of row idx set from the
\* dictionaries at key, and the row counted; st is [df, count, hits]
Resolve(st, idx, cm, nm, key) ==
    [df |-> SetAt(SetAt(st.df, idx, MaHangMoi, DictGet(cm, key, Empty)),
                  idx, TenHangMoi, DictGet(nm, key, Empty)),
     count |-> st.count + 1,
     hits |-> st.hits \cup {idx}]

\* one turn of the phase 2 loop, for row idx with code current_code
Phase2Body(st, idx, current_code, cm, nm, rcm) ==
    IF IsNa(current_code) \/ current_code = Empty THEN st
    ELSE IF current_code \in DOMAIN rcm
    THEN Resolve(st, idx, cm, nm, rcm[current_code])
    ELSE st

RECURSIVE Phase2Loop(_, _, _, _, _, _)
Phase2Loop(st, indices, k, cm, nm, rcm) ==
    IF k > Len(indices) THEN st
    ELSE Phase2Loop(Phase2Body(st, indices[k], Column(st.df, MaHang)[indices[k]],
                               cm, nm, rcm),
                    indices, k + 1, cm, nm, rcm)

\* lines 368-375, best_match being what _find_closest_match returned
Phase3Update(st, idx, cm, nm, best_match) ==
    IF Truthy(best_match) THEN Resolve(st, idx, cm, nm, best_match) ELSE st

\* one turn of the phase 3 loop, for row idx with code current_code
Phase3Body(st, idx, current_code, cm, nm, mdf, new_code_col, old_code_col) ==
    IF IsNa(current_code) \/ current_code = Empty THEN st
    ELSE Phase3Update(st, idx, cm, nm,
            find_closest_match(current_code, mdf, new_code_col, old_code_col,
                               Threshold).match)

RECURSIVE Phase3Loop(_, _, _, _, _, _, _, _)
Phase3Loop(st, indices, k, cm, nm, mdf, new_code_col, old_code_col) ==
    IF k > Len(indices) THEN st
    ELSE Phase3Loop(Phase3Body(st, indices[k], Column(st.df, MaHang)[indices[k]],
                               cm, nm, mdf, new_code_col, old_code_col),
                    indices, k + 1, cm, nm, mdf, new_code_col, old_code_col)

\* data_df.loc[helper is present and not empty, target] = data_df[helper]
AssignWhereSet(df, target, helper) ==
    WithColumn(df, target,
        [r \in DOMAIN df.rows |->
            IF NotNa(Column(df, helper)[r]) /\ Column(df, helper)[r] # Empty
            THEN Column(df, helper)[r]
            ELSE Column(df, target)[r]])

\* lines 390-403: the code and name columns rewritten, the helpers dropped
ApplyMapping(df) ==
    LET coded == AssignWhereSet(df, MaHang, MaHangMoi)
        named == IF HasColumn(coded, TenHang)
                 THEN AssignWhereSet(coded, TenHang, TenHangMoi)
                 ELSE coded
    IN  DropColumns(named, {MaHangMoi, TenHangMoi})

\* Series.notna().sum()
CountNotNa(series) == Cardinality({r \in DOMAIN series : NotNa(series[r])})

-----------------------------------------------------------------------------
(* Inputs: the sheets read_excel can return                                 *)

MaxMappingRows == 2
MaxDataRows == 2

SP001 == <<"S", "P", "0", "0", "1">>
SP100 == <<"S", "P", "1", "0", "0">>
SP200 == <<"S", "P", "2", "0", "0">>
SP0O1 == <<"S", "P", "0", "O", "1">>
\* a code shorter than the prefix of 3 characters
SP == <<"S", "P">>
XX999 == <<"X", "X", "9", "9", "9">>
\* ten characters: at distance 3 from Near10 and at distance 4 from Far10
Code10 == <<"A", "B", "C", "D", "E", "F", "G", "H", "I", "J">>
Near10 == <<"A", "B", "C", "D", "E", "F", "G", "X", "Y", "Z">>
Far10 == <<"A", "B", "C", "D", "E", "F", "W", "X", "Y", "Z">>

\* a cell holds its text as one token where the text is only compared
CuA == <<"Cu A">>
CuB == <<"Cu B">>
MoiA == <<"Mới A">>
One == <<"1">>
Two == <<"2">>

\* rows of the mapping sheet: old code, old name, new code, new name;
\* a blank cell is read as NaN
MappingRowPool ==
    { <<SP001, CuA, SP100, MoiA>>,
      <<SP001, CuA, SP200, MoiA>>,
      <<SP001, CuA, SP100, NaN>>,
      <<SP100, CuA, NaN, MoiA>>,
      <<SP100, CuA, SP200, MoiA>>,
      <<NaN, CuA, SP200, MoiA>>,
      <<SP001, CuA, Near10, MoiA>>,
      <<SP100, CuA, Far10, MoiA>> }

\* records of the data sheet: code, name and the cell of the third column
DataRecordPool ==
    { [code |-> c, name |-> CuA, more |-> One] :
        c \in {NaN, SP001, SP100, SP0O1, XX999, Code10, SP} }

\* the records after the first of a sheet: another name and another cell in
\* the third column
NextRecordPool ==
    { [code |-> SP100, name |-> CuB, more |-> Two] }

\* the tables of at most n records, the first of one pool and the others of
\* the other
TablesOf(first, next, n) ==
    { <<>> } \cup UNION { { <<f>> \o t : f \in first, t \in [1..(k - 1) -> next] } :
                            k \in 1..n }

SeqsUpTo(S, n) == UNION { [1..k -> S] : k \in 0..n }

HeadersVi ==
    << <<"M", "ã", " ", "g", "ố", "c">>, <<"T", "ê", "n", " ", "g", "ố", "c">>, <<"M", "ã", " ", "m", "ớ", "i">>, <<"T", "ê", "n", " ", "m", "ớ", "i">> >>
HeadersEn ==
    << <<"O", "l", "d", " ", "C", "o", "d", "e">>, <<"O", "l", "d", " ", "N", "a", "m", "e">>, <<"N", "e", "w", " ", "C", "o", "d", "e">>, <<"N", "e", "w", " ", "N", "a", "m", "e">> >>
\* the four headers, the new columns before the old ones
HeadersNewFirst ==
    << <<"M", "ã", " ", "m", "ớ", "i">>, <<"T", "ê", "n", " ", "m", "ớ", "i">>, <<"M", "ã", " ", "g", "ố", "c">>, <<"T", "ê", "n", " ", "g", "ố", "c">> >>
\* header rows that leave a logical column unresolved, and one with the
\* four headers and a numeric label
HeadersBad ==
    { << <<"A">>, <<"B">>, <<"C">>, <<"D">> >>,
      << <<"M", "ã", " ", "g", "ố", "c">>, <<"T", "ê", "n", " ", "g", "ố", "c">>, <<"M", "ã", " ", "m", "ớ", "i">> >>,
      << <<"M", "ã", " ", "g", "ố", "c">>, <<"T", "ê", "n", " ", "g", "ố", "c">>, <<"M", "ã", " ", "m", "ớ", "i">>, <<"G", "h", "i", " ", "c", "h", "ú">>, <<"S", "L">> >>,
      << <<"C", "o", "d", "e">>, <<"N", "a", "m", "e">> >>,
      << <<"M", "ã", " ", "g", "ố", "c">>, <<"T", "ê", "n", " ", "g", "ố", "c">>, <<"M", "ã", " ", "m", "ớ", "i">>, <<"T", "ê", "n", " ", "m", "ớ", "i">>, Year2024 >> }

\* the sheets with the four headers, a sheet of English headers and a
\* sheet with the new columns first, both without rows, and the sheets that
\* leave a logical column unresolved
MappingSheets ==
    { [columns |-> HeadersVi, rows |-> t] :
        t \in SeqsUpTo(MappingRowPool, MaxMappingRows) }
    \cup { [columns |-> h, rows |-> <<>>] :
              h \in {HeadersEn, HeadersNewFirst} \cup HeadersBad }

SL == <<"S", "L">>
GhiChu == <<"G", "h", "i", " ", "c", "h", "ú">>
ProductCode == <<"P", "r", "o", "d", "u", "c", "t", " ", "C", "o", "d", "e">>
ProductName == <<"P", "r", "o", "d", "u", "c", "t", " ", "N", "a", "m", "e">>

\* header rows of the data sheet of 3 columns and of 2 columns, among them
\* sheets with a column that has the name of a helper column of lines 307-308
DataHeaders3 ==
    { <<MaHang, TenHang, SL>>, <<ProductCode, ProductName, SL>>, <<TenHang, SL, GhiChu>>,
      <<MaHang, TenHang, Year2024>>, <<MaHang, TenHang, TenHangMoi>> }
DataHeaders2 ==
    { <<MaHang, SL>>, <<ProductCode, SL>>, <<SL, GhiChu>>,
      <<MaHang, Year2024>>, <<ProductCode, Year2024>>, <<MaHang, MaHangMoi>>,
      <<MaHang, TenHangMoi>> }

\* the rows of a data sheet under a header row of 3 columns (code, name and
\* a further cell) or of 2 columns (code and a further cell)
DataRows(h, t) ==
    IF Len(h) = 3
    THEN [r \in DOMAIN t |-> <<t[r].code, t[r].name, t[r].more>>]
    ELSE [r \in DOMAIN t |-> <<t[r].code, t[r].more>>]

\* records of a data sheet without a name column
CodeOnlyRecordPool ==
    { [code |-> c, name |-> CuA, more |-> One] : c \in {NaN, SP001} }

\* records of a data sheet with a column named as a helper column
HelperRecordPool ==
    { [code |-> SP001, name |-> CuA, more |-> One] }

\* the tables read under a header row: the tables of the pool under the
\* Vietnamese header row, the tables of the smaller pools under the header
\* row without a name column and under those with a column named as a helper
\* column, a sheet without rows under the others
DataTables(h) ==
    IF h = <<MaHang, TenHang, SL>>
    THEN TablesOf(DataRecordPool, NextRecordPool, MaxDataRows)
    ELSE IF h = <<ProductCode, SL>>
    THEN TablesOf(CodeOnlyRecordPool, NextRecordPool, MaxDataRows)
    ELSE IF MaHangMoi \in Range(h) \/ TenHangMoi \in Range(h)
    THEN TablesOf(HelperRecordPool, NextRecordPool, MaxDataRows)
    ELSE { <<>> }

-----------------------------------------------------------------------------
(* process_to_buffer                                                        *)

\* process_to_buffer has not begun
ProcessIdle ==
    /\ mapping_df = None
    /\ column_mapping = None
    /\ data_df = None
    /\ input_df = None
    /\ code_mapping = EmptyDict
    /\ name_mapping = EmptyDict
    /\ reverse_code_mapping = EmptyDict
    /\ total_count = 0
    /\ exact_matched_count = 0
    /\ reverse_matched_count = 0
    /\ fuzzy_matched_count = 0
    /\ unmatched_indices = <<>>
    /\ still_unmatched_indices = <<>>
    /\ data_columns = None
    /\ exact_hits = {}
    /\ reverse_hits = {}
    /\ fuzzy_hits = {}
    /\ output_buffer = None
    /\ result = None
    /\ error = None

\* no call of _levenshtein_distance on its own
DistanceIdle ==
    /\ lev_str1 = None
    /\ lev_str2 = None
    /\ lev_distance = None
    /\ lev_similarity = None

\* no call of _find_column_by_pattern on its own
FindIdle ==
    /\ find_columns = None
    /\ find_patterns = None
    /\ find_result = None

\* the handlers of main.py are not deployed
ServiceIdle ==
    /\ kv_detail = None
    /\ kv_status = None
    /\ in_flight = None
    /\ non_existing_codes = None
    /\ email_scheduler_active = None
    /\ first_submit_time = None
    /\ invocations = None
    /\ emailed = None
    /\ calls = None

\* the handlers of main-sqlite.py are not deployed
SqliteIdle ==
    /\ orders = None
    /\ code_rows = None
    /\ daily_task_stats = None

\* no call of _find_closest_match on its own
MatchIdle ==
    /\ match_code = None
    /\ match_df = None
    /\ match_result = None

Init ==
    /\ pc = "start"
    /\ ProcessIdle
    /\ DistanceIdle
    /\ FindIdle
    /\ MatchIdle
    /\ ServiceIdle
    /\ SqliteIdle

\* _load_mapping_data: read_excel, fillna, _identify_mapping_columns;
\* the exception is logged and raised again, here and in process_to_buffer
LoadMappingData ==
    /\ pc = "start"
    /\ UNCHANGED aside_vars
    /\ \E sheet \in MappingSheets :
        LET df_mapping == FillNa(sheet)
            identified == identify_mapping_columns(df_mapping.columns)
        IN  IF identified.raised
            THEN /\ pc' = "raised"
                 /\ error' = identified.error
                 /\ UNCHANGED <<mapping_df, column_mapping>>
            ELSE /\ pc' = "mapping_loaded"
                 /\ mapping_df' = df_mapping
                 /\ column_mapping' = identified.column_mapping
                 /\ UNCHANGED error
    /\ UNCHANGED <<data_columns, exact_hits, data_df, input_df, code_mapping, name_mapping, reverse_code_mapping,
                   total_count, exact_matched_count, reverse_matched_count,
                   fuzzy_matched_count, unmatched_indices, still_unmatched_indices,
                   reverse_hits, fuzzy_hits, output_buffer, result>>

\* the rest of _load_data_file, loaded being what the renaming returned
LoadDataFileAs(h, loaded) ==
    IF loaded.raised
    THEN /\ pc' = "raised"
         /\ error' = loaded.error
         /\ data_columns' = h
         /\ UNCHANGED <<data_df, input_df>>
    ELSE \E t \in DataTables(h) :
         /\ pc' = "data_loaded"
         /\ data_columns' = h
         /\ data_df' = [columns |-> loaded.columns, rows |-> DataRows(h, t)]
         /\ input_df' = data_df'
         /\ UNCHANGED error

\* a loader that, when the renaming raises, writes the sheet as it was read
\* to the buffer before the exception leaves
LoadDataFileBestEffort ==
    /\ pc = "mapping_loaded"
    /\ UNCHANGED aside_vars
    /\ \E h \in DataHeaders3 \cup DataHeaders2 :
        /\ LoadDataFileAs(h, load_data_file(h))
        /\ IF load_data_file(h).raised
           THEN output_buffer' = [columns |-> h, rows |-> <<>>]
           ELSE UNCHANGED output_buffer
    /\ UNCHANGED <<exact_hits, mapping_df, column_mapping, code_mapping, name_mapping,
                   reverse_code_mapping, total_count, exact_matched_count,
                   reverse_matched_count, fuzzy_matched_count, unmatched_indices,
                   still_unmatched_indices, reverse_hits, fuzzy_hits, result>>

\* _load_data_file: read_excel and the renaming of the two columns, which
\* changes the headers and no cell
LoadDataFile ==
    /\ pc = "mapping_loaded"
    /\ UNCHANGED aside_vars
    /\ \E h \in DataHeaders3 \cup DataHeaders2 : LoadDataFileAs(h, load_data_file(h))
    /\ UNCHANGED <<exact_hits, mapping_df, column_mapping, code_mapping, name_mapping,
                   reverse_code_mapping, total_count, exact_matched_count,
                   reverse_matched_count, fuzzy_matched_count, unmatched_indices,
                   still_unmatched_indices, reverse_hits, fuzzy_hits, output_buffer,
                   result>>

\* lines 287-303: the two dictionaries and the counters
BuildMappings ==
    /\ pc = "data_loaded"
    /\ UNCHANGED aside_vars
    /\ code_mapping' = DictZip(Column(mapping_df, column_mapping.old_code),
                               Column(mapping_df, column_mapping.new_code), 1, EmptyDict)
    /\ name_mapping' = DictZip(Column(mapping_df, column_mapping.old_code),
                               Column(mapping_df, column_mapping.new_name), 1, EmptyDict)
    /\ total_count' = Len(data_df.rows)
    /\ exact_matched_count' = 0
    /\ reverse_matched_count' = 0
    /\ fuzzy_matched_count' = 0
    /\ pc' = "phase1"
    /\ UNCHANGED <<data_columns, exact_hits, mapping_df, column_mapping, data_df, input_df, reverse_code_mapping,
                   unmatched_indices, still_unmatched_indices, reverse_hits, fuzzy_hits,
                   output_buffer, result, error>>

\* the data frame after the two map() calls of phase 1
Phase1Frame(df, cm, nm) ==
    WithColumn(WithColumn(df, MaHangMoi, SeriesMap(Column(df, MaHang), cm)),
               TenHangMoi, SeriesMap(Column(df, MaHang), nm))

\* exact_matched_count
ExactCount(df) == CountNotNa(Column(df, MaHangMoi))

\* lines 305-313: phase 1
Phase1 ==
    /\ pc = "phase1"
    /\ UNCHANGED aside_vars
    /\ HasColumn(data_df, MaHang)
    /\ data_df' = Phase1Frame(data_df, code_mapping, name_mapping)
    /\ exact_matched_count' = ExactCount(data_df')
    /\ exact_hits' = {r \in DOMAIN data_df'.rows : NotNa(Column(data_df', MaHangMoi)[r])}
    /\ pc' = "phase2"
    /\ UNCHANGED <<data_columns, mapping_df, column_mapping, input_df, code_mapping, name_mapping,
                   reverse_code_mapping, total_count, reverse_matched_count,
                   fuzzy_matched_count, unmatched_indices, still_unmatched_indices,
                   reverse_hits, fuzzy_hits, output_buffer, result, error>>

\* the assignments of phase 2, done being the state of the loop at its end
Phase2Assign(rcm, indices, done) ==
    /\ reverse_code_mapping' = rcm
    /\ unmatched_indices' = indices
    /\ data_df' = done.df
    /\ reverse_matched_count' = done.count
    /\ reverse_hits' = done.hits

\* phase 2 with its reverse dictionary and the rows it iterates over
Phase2With(rcm, indices) ==
    Phase2Assign(rcm, indices,
        Phase2Loop([df |-> data_df, count |-> reverse_matched_count, hits |-> {}],
                   indices, 1, code_mapping, name_mapping, rcm))

\* lines 316-346: phase 2
Phase2 ==
    /\ pc = "phase2"
    /\ UNCHANGED aside_vars
    /\ Phase2With(ReverseMapping(mapping_df, column_mapping.new_code,
                                 column_mapping.old_code, 1, EmptyDict),
                  UnmatchedIndices(data_df))
    /\ pc' = "phase3"
    /\ UNCHANGED <<data_columns, exact_hits, mapping_df, column_mapping, input_df, code_mapping, name_mapping,
                   total_count, exact_matched_count, fuzzy_matched_count,
                   still_unmatched_indices, fuzzy_hits, output_buffer, result, error>>

\* the assignments of phase 3, done being the state of the loop at its end
Phase3Assign(indices, done) ==
    /\ still_unmatched_indices' = indices
    /\ data_df' = done.df
    /\ fuzzy_matched_count' = done.count
    /\ fuzzy_hits' = done.hits

\* phase 3 with the rows it iterates over
Phase3With(indices) ==
    Phase3Assign(indices,
        Phase3Loop([df |-> data_df, count |-> fuzzy_matched_count, hits |-> {}],
                   indices, 1, code_mapping, name_mapping, mapping_df,
                   column_mapping.new_code, column_mapping.old_code))

\* lines 348-379: phase 3
Phase3 ==
    /\ pc = "phase3"
    /\ UNCHANGED aside_vars
    /\ Phase3With(UnmatchedIndices(data_df))
    /\ pc' = "apply"
    /\ UNCHANGED <<data_columns, exact_hits, mapping_df, column_mapping, input_df, code_mapping, name_mapping,
                   reverse_code_mapping, total_count, exact_matched_count,
                   reverse_matched_count, unmatched_indices, reverse_hits,
                   output_buffer, result, error>>

\* lines 381-403: the columns rewritten and the helper columns dropped
Apply ==
    /\ pc = "apply"
    /\ UNCHANGED aside_vars
    /\ data_df' = ApplyMapping(data_df)
    /\ pc' = "write"
    /\ UNCHANGED <<data_columns, exact_hits, mapping_df, column_mapping, input_df, code_mapping, name_mapping,
                   reverse_code_mapping, total_count, exact_matched_count,
                   reverse_matched_count, fuzzy_matched_count, unmatched_indices,
                   still_unmatched_indices, reverse_hits, fuzzy_hits, output_buffer,
                   result, error>>

\* the statistics of lines 381-385 and 411-417
Statistics(total, exact, reverse, fuzzy) ==
    [matched_count |-> exact + reverse + fuzzy,
     total_count |-> total,
     exact_matched_count |-> exact,
     reverse_matched_count |-> reverse,
     fuzzy_matched_count |-> fuzzy]

\* lines 405-417: the table written to the buffer, the statistics returned
WriteOutput ==
    /\ pc = "write"
    /\ UNCHANGED aside_vars
    /\ output_buffer' = data_df
    /\ result' = Statistics(total_count, exact_matched_count, reverse_matched_count,
                            fuzzy_matched_count)
    /\ pc' = "done"
    /\ UNCHANGED <<data_columns, exact_hits, mapping_df, column_mapping, data_df, input_df, code_mapping,
                   name_mapping, reverse_code_mapping, total_count, exact_matched_count,
                   reverse_matched_count, fuzzy_matched_count, unmatched_indices,
                   still_unmatched_indices, reverse_hits, fuzzy_hits, error>>

Next ==
    \/ LoadMappingData
    \/ LoadDataFile
    \/ BuildMappings
    \/ Phase1
    \/ Phase2
    \/ Phase3
    \/ Apply
    \/ WriteOutput

Spec == Init /\ [][Next]_vars

-----------------------------------------------------------------------------
(* A call of _levenshtein_distance on its own, and the similarity line 271  *)
(* computes from it                                                         *)

MaxLen == 3

Alphabet == {"A", "B", "C"}

\* the strings of at most MaxLen characters
Strings == SeqsUpTo(Alphabet, MaxLen)

\* the variables of process_to_buffer other than pc
frame_vars == <<mapping_df, column_mapping, data_df, code_mapping, name_mapping,
                reverse_code_mapping, total_count, exact_matched_count,
                reverse_matched_count, fuzzy_matched_count, unmatched_indices,
                still_unmatched_indices, data_columns, exact_hits, reverse_hits,
                fuzzy_hits, input_df, output_buffer, result, error>>

\* the variables a call of _levenshtein_distance leaves alone
rest_of_distance == <<frame_vars, find_vars, match_vars, service_vars, sqlite_vars>>

DistanceInit ==
    /\ pc = "distance_call"
    /\ lev_str1 \in Strings
    /\ lev_str2 \in Strings
    /\ lev_distance = None
    /\ lev_similarity = None
    /\ ProcessIdle
    /\ FindIdle
    /\ MatchIdle
    /\ ServiceIdle
    /\ SqliteIdle

\* line 268: distance = self._levenshtein_distance(code, new_code)
LevenshteinDistance ==
    /\ pc = "distance_call"
    /\ lev_distance' = levenshtein_distance(lev_str1, lev_str2)
    /\ pc' = "distance_returned"
    /\ UNCHANGED <<lev_str1, lev_str2, lev_similarity>>
    /\ UNCHANGED rest_of_distance

\* lines 270-271: max_len and similarity
ComputeSimilarity ==
    /\ pc = "distance_returned"
    /\ lev_similarity' = SimilarityOf(lev_distance, Max2(Len(lev_str1), Len(lev_str2)))
    /\ pc' = "similarity_computed"
    /\ UNCHANGED <<lev_str1, lev_str2, lev_distance>>
    /\ UNCHANGED rest_of_distance

DistanceNext ==
    \/ LevenshteinDistance
    \/ ComputeSimilarity

DistanceSpec == DistanceInit /\ [][DistanceNext]_vars

-----------------------------------------------------------------------------
(* _find_column_by_pattern on its own: a header row and a pattern family    *)

MaxHeaders == 2

\* header cells that hold the text of a pattern: "mã\s*gốc" and "ma\s*goc"
PatternTextVi == <<"m", "ã", "\\", "s", "*", "g", "ố", "c">>
PatternTextPlain == <<"m", "a", "\\", "s", "*", "g", "o", "c">>
MaGocPlain == <<"M", "a", " ", "g", "o", "c">>

\* the header cells of the sheets: two Vietnamese headers, one of them also
\* without accents, an English one, the two pattern texts, a header no
\* pattern matches and a numeric label
HeaderPool ==
    { HeadersVi[1], HeadersVi[2], MaGocPlain, HeadersEn[1],
      PatternTextVi, PatternTextPlain, SL, Year2024 }

\* df.columns: read_excel gives the columns distinct labels
HeaderRows ==
    { h \in SeqsUpTo(HeaderPool, MaxHeaders) :
        \A i, j \in DOMAIN h : i # j => h[i] # h[j] }

\* the families _identify_mapping_columns and _load_data_file pass
PatternFamilies ==
    { old_code_patterns, old_name_patterns, new_code_patterns, new_name_patterns,
      data_code_patterns, data_name_patterns }

\* the variables a call of _find_column_by_pattern leaves alone
rest_of_find == <<frame_vars, call_vars, match_vars, service_vars, sqlite_vars>>

FindInit ==
    /\ pc = "find_call"
    /\ find_columns \in HeaderRows
    /\ find_patterns \in PatternFamilies
    /\ find_result = None
    /\ ProcessIdle
    /\ DistanceIdle
    /\ MatchIdle
    /\ ServiceIdle
    /\ SqliteIdle

\* lines 90-105 on a header row of text labels
FindColumnByPattern ==
    /\ pc = "find_call"
    /\ Normalizable(find_columns)
    /\ find_result' = find_column_by_pattern(find_columns, find_patterns)
    /\ pc' = "find_returned"
    /\ UNCHANGED <<find_columns, find_patterns>>
    /\ UNCHANGED rest_of_find

\* lines 90-92 on a header row with a label that is no str: name.lower()
\* raises AttributeError
FindColumnRaises ==
    /\ pc = "find_call"
    /\ ~Normalizable(find_columns)
    /\ pc' = "find_raised"
    /\ UNCHANGED find_vars
    /\ UNCHANGED rest_of_find

FindNext ==
    \/ FindColumnByPattern
    \/ FindColumnRaises

FindSpec == FindInit /\ [][FindNext]_vars

-----------------------------------------------------------------------------
(* _find_closest_match on its own: a code and a mapping table               *)

MaxMatchRows == 2

SP199 == <<"S", "P", "1", "9", "9">>
XP100 == <<"X", "P", "1", "0", "0">>

\* rows of mapping_df after fillna(""): for the code SP100, a new code with
\* its prefix at similarity 0.6, two without it at similarity 0.8, and a
\* row without a new code
MatchRowPool ==
    { <<SP001, CuA, SP199, MoiA>>,
      <<SP0O1, CuA, XP100, MoiA>>,
      <<XX999, CuA, SP200, MoiA>>,
      <<Code10, CuA, Empty, MoiA>> }

MatchTables ==
    { [columns |-> HeadersVi, rows |-> t] : t \in SeqsUpTo(MatchRowPool, MaxMatchRows) }

\* the codes phase 3 passes are not empty
MatchCodes == { SP100, SP, XX999, XP100 }

\* the variables a call of _find_closest_match leaves alone
rest_of_match == <<frame_vars, call_vars, find_vars, service_vars, sqlite_vars>>

MatchInit ==
    /\ pc = "match_call"
    /\ match_code \in MatchCodes
    /\ match_df \in MatchTables
    /\ match_result = None
    /\ ProcessIdle
    /\ DistanceIdle
    /\ FindIdle
    /\ ServiceIdle
    /\ SqliteIdle

\* lines 238-280, called as phase 3 calls it (lines 360-366)
FindClosestMatch ==
    /\ pc = "match_call"
    /\ match_result' = find_closest_match(match_code, match_df, HeadersVi[3],
                                          HeadersVi[1], Threshold)
    /\ pc' = "match_returned"
    /\ UNCHANGED <<match_code, match_df>>
    /\ UNCHANGED rest_of_match

MatchNext == FindClosestMatch

MatchSpec == MatchInit /\ [][MatchNext]_vars

-----------------------------------------------------------------------------
(* The texts of the answers of the server: a str is the sequence of its     *)
(* code points, a bytes object the sequence of its bytes                    *)

\* the result of a codec: the exception raised, or the value
Raised == [raised |-> TRUE, value |-> <<>>]
Returned(value) == [raised |-> FALSE, value |-> value]

\* the code points \s matches
SpaceCodes ==
    {9, 10, 11, 12, 13, 28, 29, 30, 31, 32, 133, 160, 5760, 8192, 8193, 8194,
     8195, 8196, 8197, 8198, 8199, 8200, 8201, 8202, 8232, 8233, 8239, 8287,
     12288}

\* "Mã hàng" and "không tồn tại trong hệ thống", the words of the pattern of
\* line 136 before and after the product code
MaHangWords == <<77, 227, 32, 104, 224, 110, 103>>
KhongTonTaiWords ==
    <<
      107, 104, 244, 110, 103, 32, 116, 7891, 110, 32, 116, 7841, 105, 32, 116,
      114, 111, 110, 103, 32, 104, 7879, 32, 116, 104, 7889, 110, 103>>

\* the words are in the text from position i on
WordsAt(text, i, words) ==
    /\ i + Len(words) - 1 <= Len(text)
    /\ \A k \in 1..Len(words) : text[i + k - 1] = words[k]

\* the first position from i on that holds no white space, Len(text) + 1
\* when there is none
SkipSpaces(text, i) ==
    IF i > Len(text) THEN i
    ELSE CHOOSE a \in i..(Len(text) + 1) :
             /\ a <= Len(text) => text[a] \notin SpaceCodes
             /\ \A k \in i..(a - 1) : text[k] \in SpaceCodes

\* the positions after a where "không tồn tại trong hệ thống" begins a word
WordsAfter(text, a) ==
    { c \in (a + 1)..Len(text) :
        text[c - 1] \in SpaceCodes /\ WordsAt(text, c, KhongTonTaiWords) }

\* the subsequence text[a..b]
Slice(text, a, b) == [k \in 1..(b - a + 1) |-> text[a + k - 1]]

\* no match of the pattern
Unmatched == [found |-> FALSE, code |-> <<>>, last |-> 0]

\* the match whose product code begins at position a and whose last words
\* begin at position c: the code ends where the white space before c begins
MatchUpTo(text, a, c) ==
    [found |-> TRUE,
     code |-> Slice(text, a, CHOOSE b \in a..(c - 1) :
                                 /\ text[b] \notin SpaceCodes
                                 /\ \A y \in (b + 1)..(c - 1) : text[y] \in SpaceCodes),
     last |-> c + Len(KhongTonTaiWords) - 1]

\* the match of the pattern that begins at position i, a the position after
\* "Mã hàng" and its white space and after the positions of the last words
\* behind a: the product code is the shortest run of words that white space
\* and "không tồn tại trong hệ thống" follow
MatchFrom(text, i, a, after) ==
    IF a > i + Len(MaHangWords) /\ after # {}
    THEN MatchUpTo(text, a, CHOOSE c \in after : \A y \in after : c <= y)
    ELSE Unmatched

MatchSpaces(text, i, a) == MatchFrom(text, i, a, WordsAfter(text, a))

MatchAt(text, i) ==
    IF WordsAt(text, i, MaHangWords)
    THEN MatchSpaces(text, i, SkipSpaces(text, i + Len(MaHangWords)))
    ELSE Unmatched

\* the first match from position i on
NextMatch(text, i) ==
    IF \E s \in i..Len(text) : MatchAt(text, s).found
    THEN MatchAt(text, CHOOSE s \in i..Len(text) :
                           /\ MatchAt(text, s).found
                           /\ \A y \in i..(s - 1) : ~MatchAt(text, y).found)
    ELSE Unmatched

\* re.findall(pattern, text) (lines 136-137): the product codes of the
\* matches from left to right, match being the next one; the search goes on
\* after the end of a match
RECURSIVE FindAllWith(_, _)
FindAllWith(text, match) ==
    IF ~match.found THEN <<>>
    ELSE <<match.code>> \o FindAllWith(text, NextMatch(text, match.last + 1))

FindAll(text) == FindAllWith(text, NextMatch(text, 1))

\* str.encode("utf-8") of one code point
Utf8Bytes(cp) ==
    IF cp < 128 THEN <<cp>>
    ELSE IF cp < 2048 THEN <<192 + (cp \div 64), 128 + (cp % 64)>>
    ELSE IF cp < 65536
         THEN <<224 + (cp \div 4096), 128 + ((cp \div 64) % 64), 128 + (cp % 64)>>
    ELSE <<240 + (cp \div 262144), 128 + ((cp \div 4096) % 64),
           128 + ((cp \div 64) % 64), 128 + (cp % 64)>>

\* a surrogate cannot be encoded: UnicodeEncodeError
Surrogate(cp) == 55296 <= cp /\ cp <= 57343

\* the bytes of the characters lo..hi, one character after the other
RECURSIVE Utf8From(_, _, _)
Utf8From(text, lo, hi) ==
    IF lo > hi THEN <<>>
    ELSE IF lo = hi THEN Utf8Bytes(text[lo])
    ELSE Utf8From(text, lo, (lo + hi) \div 2)
         \o Utf8From(text, (lo + hi) \div 2 + 1, hi)

\* str.encode("utf-8")
EncodeUtf8(text) ==
    IF \E k \in DOMAIN text : Surrogate(text[k]) THEN Raised
    ELSE Returned(Utf8From(text, 1, Len(text)))

\* the value of a hexadecimal digit, -1 for another byte
HexValue(byte) ==
    IF 48 <= byte /\ byte <= 57 THEN byte - 48
    ELSE IF 97 <= byte /\ byte <= 102 THEN byte - 87
    ELSE IF 65 <= byte /\ byte <= 70 THEN byte - 55
    ELSE -1

\* the number that count hexadecimal digits from position s on write, -1
\* when they are not all there
RECURSIVE HexNumber(_, _, _, _)
HexNumber(bytes, s, count, number) ==
    IF count = 0 THEN number
    ELSE IF s > Len(bytes) \/ HexValue(bytes[s]) < 0 THEN -1
    ELSE HexNumber(bytes, s + 1, count - 1, 16 * number + HexValue(bytes[s]))

OctalDigit(bytes, s) == s <= Len(bytes) /\ 48 <= bytes[s] /\ bytes[s] <= 55

\* the number of octal digits of an escape whose first digit is before s
OctalMore(bytes, s) ==
    IF ~OctalDigit(bytes, s) THEN 0
    ELSE IF ~OctalDigit(bytes, s + 1) THEN 1
    ELSE 2

OctalNumber(bytes, s, digit) ==
    IF OctalMore(bytes, s) = 0 THEN digit
    ELSE IF OctalMore(bytes, s) = 1 THEN 8 * digit + (bytes[s] - 48)
    ELSE 64 * digit + 8 * (bytes[s] - 48) + (bytes[s + 1] - 48)

\* the names and aliases of the characters below U+0100, and under each its
\* code point
CharNames ==
    <<
      <<78, 85, 76>>,
      <<78, 85, 76, 76>>,
      <<83, 79, 72>>,
      <<83, 84, 65, 82, 84, 32, 79, 70, 32, 72, 69, 65, 68, 73, 78, 71>>,
      <<83, 84, 65, 82, 84, 32, 79, 70, 32, 84, 69, 88, 84>>,
      <<83, 84, 88>>,
      <<69, 78, 68, 32, 79, 70, 32, 84, 69, 88, 84>>,
      <<69, 84, 88>>,
      <<69, 78, 68, 32, 79, 70, 32, 84, 82, 65, 78, 83, 77, 73, 83, 83, 73, 79, 78>>,
      <<69, 79, 84>>,
      <<69, 78, 81>>,
      <<69, 78, 81, 85, 73, 82, 89>>,
      <<65, 67, 75>>,
      <<65, 67, 75, 78, 79, 87, 76, 69, 68, 71, 69>>,
      <<65, 76, 69, 82, 84>>,
      <<66, 69, 76>>,
      <<66, 65, 67, 75, 83, 80, 65, 67, 69>>,
      <<66, 83>>,
      <<67, 72, 65, 82, 65, 67, 84, 69, 82, 32, 84, 65, 66, 85, 76, 65, 84, 73, 79, 78>>,
      <<72, 79, 82, 73, 90, 79, 78, 84, 65, 76, 32, 84, 65, 66, 85, 76, 65, 84, 73, 79, 78>>,
      <<72, 84>>,
      <<84, 65, 66>>,
      <<69, 78, 68, 32, 79, 70, 32, 76, 73, 78, 69>>,
      <<69, 79, 76>>,
      <<76, 70>>,
      <<76, 73, 78, 69, 32, 70, 69, 69, 68>>,
      <<78, 69, 87, 32, 76, 73, 78, 69>>,
      <<78, 76>>,
      <<76, 73, 78, 69, 32, 84, 65, 66, 85, 76, 65, 84, 73, 79, 78>>,
      <<86, 69, 82, 84, 73, 67, 65, 76, 32, 84, 65, 66, 85, 76, 65, 84, 73, 79, 78>>,
      <<86, 84>>,
      <<70, 70>>,
      <<70, 79, 82, 77, 32, 70, 69, 69, 68>>,
      <<67, 65, 82, 82, 73, 65, 71, 69, 32, 82, 69, 84, 85, 82, 78>>,
      <<67, 82>>,
      <<76, 79, 67, 75, 73, 78, 71, 45, 83, 72, 73, 70, 84, 32, 79, 78, 69>>,
      <<83, 72, 73, 70, 84, 32, 79, 85, 84>>,
      <<83, 79>>,
      <<76, 79, 67, 75, 73, 78, 71, 45, 83, 72, 73, 70, 84, 32, 90, 69, 82, 79>>,
      <<83, 72, 73, 70, 84, 32, 73, 78>>,
      <<83, 73>>,
      <<68, 65, 84, 65, 32, 76, 73, 78, 75, 32, 69, 83, 67, 65, 80, 69>>,
      <<68, 76, 69>>,
      <<68, 67, 49>>,
      <<68, 69, 86, 73, 67, 69, 32, 67, 79, 78, 84, 82, 79, 76, 32, 79, 78, 69>>,
      <<68, 67, 50>>,
      <<68, 69, 86, 73, 67, 69, 32, 67, 79, 78, 84, 82, 79, 76, 32, 84, 87, 79>>,
      <<68, 67, 51>>,
      <<68, 69, 86, 73, 67, 69, 32, 67, 79, 78, 84, 82, 79, 76, 32, 84, 72, 82, 69, 69>>,
      <<68, 67, 52>>,
      <<68, 69, 86, 73, 67, 69, 32, 67, 79, 78, 84, 82, 79, 76, 32, 70, 79, 85, 82>>,
      <<78, 65, 75>>,
      <<78, 69, 71, 65, 84, 73, 86, 69, 32, 65, 67, 75, 78, 79, 87, 76, 69, 68, 71, 69>>,
      <<83, 89, 78>>,
      <<83, 89, 78, 67, 72, 82, 79, 78, 79, 85, 83, 32, 73, 68, 76, 69>>,
      <<69, 78, 68, 32, 79, 70, 32, 84, 82, 65, 78, 83, 77, 73, 83, 83, 73, 79, 78, 32, 66, 76, 79, 67, 75>>,
      <<69, 84, 66>>,
      <<67, 65, 78>>,
      <<67, 65, 78, 67, 69, 76>>,
      <<69, 78, 68, 32, 79, 70, 32, 77, 69, 68, 73, 85, 77>>,
      <<69, 79, 77>>,
      <<83, 85, 66>>,
      <<83, 85, 66, 83, 84, 73, 84, 85, 84, 69>>,
      <<69, 83, 67>>,
      <<69, 83, 67, 65, 80, 69>>,
      <<70, 73, 76, 69, 32, 83, 69, 80, 65, 82, 65, 84, 79, 82>>,
      <<70, 83>>,
      <<73, 78, 70, 79, 82, 77, 65, 84, 73, 79, 78, 32, 83, 69, 80, 65, 82, 65, 84, 79, 82, 32, 70, 79, 85, 82>>,
      <<71, 82, 79, 85, 80, 32, 83, 69, 80, 65, 82, 65, 84, 79, 82>>,
      <<71, 83>>,
      <<73, 78, 70, 79, 82, 77, 65, 84, 73, 79, 78, 32, 83, 69, 80, 65, 82, 65, 84, 79, 82, 32, 84, 72, 82, 69, 69>>,
      <<73, 78, 70, 79, 82, 77, 65, 84, 73, 79, 78, 32, 83, 69, 80, 65, 82, 65, 84, 79, 82, 32, 84, 87, 79>>,
      <<82, 69, 67, 79, 82, 68, 32, 83, 69, 80, 65, 82, 65, 84, 79, 82>>,
      <<82, 83>>,
      <<73, 78, 70, 79, 82, 77, 65, 84, 73, 79, 78, 32, 83, 69, 80, 65, 82, 65, 84, 79, 82, 32, 79, 78, 69>>,
      <<85, 78, 73, 84, 32, 83, 69, 80, 65, 82, 65, 84, 79, 82>>,
      <<85, 83>>,
      <<83, 80>>,
      <<83, 80, 65, 67, 69>>,
      <<69, 88, 67, 76, 65, 77, 65, 84, 73, 79, 78, 32, 77, 65, 82, 75>>,
      <<81, 85, 79, 84, 65, 84, 73, 79, 78, 32, 77, 65, 82, 75>>,
      <<78, 85, 77, 66, 69, 82, 32, 83, 73, 71, 78>>,
      <<68, 79, 76, 76, 65, 82, 32, 83, 73, 71, 78>>,
      <<80, 69, 82, 67, 69, 78, 84, 32, 83, 73, 71, 78>>,
      <<65, 77, 80, 69, 82, 83, 65, 78, 68>>,
      <<65, 80, 79, 83, 84, 82, 79, 80, 72, 69>>,
      <<76, 69, 70, 84, 32, 80, 65, 82, 69, 78, 84, 72, 69, 83, 73, 83>>,
      <<82, 73, 71, 72, 84, 32, 80, 65, 82, 69, 78, 84, 72, 69, 83, 73, 83>>,
      <<65, 83, 84, 69, 82, 73, 83, 75>>,
      <<80, 76, 85, 83, 32, 83, 73, 71, 78>>,
      <<67, 79, 77, 77, 65>>,
      <<72, 89, 80, 72, 69, 78, 45, 77, 73, 78, 85, 83>>,
      <<70, 85, 76, 76, 32, 83, 84, 79, 80>>,
      <<83, 79, 76, 73, 68, 85, 83>>,
      <<68, 73, 71, 73, 84, 32, 90, 69, 82, 79>>,
      <<68, 73, 71, 73, 84, 32, 79, 78, 69>>,
      <<68, 73, 71, 73, 84, 32, 84, 87, 79>>,
      <<68, 73, 71, 73, 84, 32, 84, 72, 82, 69, 69>>,
      <<68, 73, 71, 73, 84, 32, 70, 79, 85, 82>>,
      <<68, 73, 71, 73, 84, 32, 70, 73, 86, 69>>,
      <<68, 73, 71, 73, 84, 32, 83, 73, 88>>,
      <<68, 73, 71, 73, 84, 32, 83, 69, 86, 69, 78>>,
      <<68, 73, 71, 73, 84, 32, 69, 73, 71, 72, 84>>,
      <<68, 73, 71, 73, 84, 32, 78, 73, 78, 69>>,
      <<67, 79, 76, 79, 78>>,
      <<83, 69, 77, 73, 67, 79, 76, 79, 78>>,
      <<76, 69, 83, 83, 45, 84, 72, 65, 78, 32, 83, 73, 71, 78>>,
      <<69, 81, 85, 65, 76, 83, 32, 83, 73, 71, 78>>,
      <<71, 82, 69, 65, 84, 69, 82, 45, 84, 72, 65, 78, 32, 83, 73, 71, 78>>,
      <<81, 85, 69, 83, 84, 73, 79, 78, 32, 77, 65, 82, 75>>,
      <<67, 79, 77, 77, 69, 82, 67, 73, 65, 76, 32, 65, 84>>,
      <<76, 65, 84, 73, 78, 32, 67, 65, 80, 73, 84, 65, 76, 32, 76, 69, 84, 84, 69, 82, 32, 65>>,
      <<76, 65, 84, 73, 78, 32, 67, 65, 80, 73, 84, 65, 76, 32, 76, 69, 84, 84, 69, 82, 32, 66>>,
      <<76, 65, 84, 73, 78, 32, 67, 65, 80, 73, 84, 65, 76, 32, 76, 69, 84, 84, 69, 82, 32, 67>>,
      <<76, 65, 84, 73, 78, 32, 67, 65, 80, 73, 84, 65, 76, 32, 76, 69, 84, 84, 69, 82, 32, 68>>,
      <<76, 65, 84, 73, 78, 32, 67, 65, 80, 73, 84, 65, 76, 32, 76, 69, 84, 84, 69, 82, 32, 69>>,
      <<76, 65, 84, 73, 78, 32, 67, 65, 80, 73, 84, 65, 76, 32, 76, 69, 84, 84, 69, 82, 32, 70>>,
      <<76, 65, 84, 73, 78, 32, 67, 65, 80, 73, 84, 65, 76, 32, 76, 69, 84, 84, 69, 82, 32, 71>>,
      <<76, 65, 84, 73, 78, 32, 67, 65, 80, 73, 84, 65, 76, 32, 76, 69, 84, 84, 69, 82, 32, 72>>,
      <<76, 65, 84, 73, 78, 32, 67, 65, 80, 73, 84, 65, 76, 32, 76, 69, 84, 84, 69, 82, 32, 73>>,
      <<76, 65, 84, 73, 78, 32, 67, 65, 80, 73, 84, 65, 76, 32, 76, 69, 84, 84, 69, 82, 32, 74>>,
      <<76, 65, 84, 73, 78, 32, 67, 65, 80, 73, 84, 65, 76, 32, 76, 69, 84, 84, 69, 82, 32, 75>>,
      <<76, 65, 84, 73, 78, 32, 67, 65, 80, 73, 84, 65, 76, 32, 76, 69, 84, 84, 69, 82, 32, 76>>,
      <<76, 65, 84, 73, 78, 32, 67, 65, 80, 73, 84, 65, 76, 32, 76, 69, 84, 84, 69, 82, 32, 77>>,
      <<76, 65, 84, 73, 78, 32, 67, 65, 80, 73, 84, 65, 76, 32, 76, 69, 84, 84, 69, 82, 32, 78>>,
      <<76, 65, 84, 73, 78, 32, 67, 65, 80, 73, 84, 65, 76, 32, 76, 69, 84, 84, 69, 82, 32, 79>>,
      <<76, 65, 84, 73, 78, 32, 67, 65, 80, 73, 84, 65, 76, 32, 76, 69, 84, 84, 69, 82, 32, 80>>,
      <<76, 65, 84, 73, 78, 32, 67, 65, 80, 73, 84, 65, 76, 32, 76, 69, 84, 84, 69, 82, 32, 81>>,
      <<76, 65, 84, 73, 78, 32, 67, 65, 80, 73, 84, 65, 76, 32, 76, 69, 84, 84, 69, 82, 32, 82>>,
      <<76, 65, 84, 73, 78, 32, 67, 65, 80, 73, 84, 65, 76, 32, 76, 69, 84, 84, 69, 82, 32, 83>>,
      <<76, 65, 84, 73, 78, 32, 67, 65, 80, 73, 84, 65, 76, 32, 76, 69, 84, 84, 69, 82, 32, 84>>,
      <<76, 65, 84, 73, 78, 32, 67, 65, 80, 73, 84, 65, 76, 32, 76, 69, 84, 84, 69, 82, 32, 85>>,
      <<76, 65, 84, 73, 78, 32, 67, 65, 80, 73, 84, 65, 76, 32, 76, 69, 84, 84, 69, 82, 32, 86>>,
      <<76, 65, 84, 73, 78, 32, 67, 65, 80, 73, 84, 65, 76, 32, 76, 69, 84, 84, 69, 82, 32, 87>>,
      <<76, 65, 84, 73, 78, 32, 67, 65, 80, 73, 84, 65, 76, 32, 76, 69, 84, 84, 69, 82, 32, 88>>,
      <<76, 65, 84, 73, 78, 32, 67, 65, 80, 73, 84, 65, 76, 32, 76, 69, 84, 84, 69, 82, 32, 89>>,
      <<76, 65, 84, 73, 78, 32, 67, 65, 80, 73, 84, 65, 76, 32, 76, 69, 84, 84, 69, 82, 32, 90>>,
      <<76, 69, 70, 84, 32, 83, 81, 85, 65, 82, 69, 32, 66, 82, 65, 67, 75, 69, 84>>,
      <<82, 69, 86, 69, 82, 83, 69, 32, 83, 79, 76, 73, 68, 85, 83>>,
      <<82, 73, 71, 72, 84, 32, 83, 81, 85, 65, 82, 69, 32, 66, 82, 65, 67, 75, 69, 84>>,
      <<67, 73, 82, 67, 85, 77, 70, 76, 69, 88, 32, 65, 67, 67, 69, 78, 84>>,
      <<76, 79, 87, 32, 76, 73, 78, 69>>,
      <<71, 82, 65, 86, 69, 32, 65, 67, 67, 69, 78, 84>>,
      <<76, 65, 84, 73, 78, 32, 83, 77, 65, 76, 76, 32, 76, 69, 84, 84, 69, 82, 32, 65>>,
      <<76, 65, 84, 73, 78, 32, 83, 77, 65, 76, 76, 32, 76, 69, 84, 84, 69, 82, 32, 66>>,
      <<76, 65, 84, 73, 78, 32, 83, 77, 65, 76, 76, 32, 76, 69, 84, 84, 69, 82, 32, 67>>,
      <<76, 65, 84, 73, 78, 32, 83, 77, 65, 76, 76, 32, 76, 69, 84, 84, 69, 82, 32, 68>>,
      <<76, 65, 84, 73, 78, 32, 83, 77, 65, 76, 76, 32, 76, 69, 84, 84, 69, 82, 32, 69>>,
      <<76, 65, 84, 73, 78, 32, 83, 77, 65, 76, 76, 32, 76, 69, 84, 84, 69, 82, 32, 70>>,
      <<76, 65, 84, 73, 78, 32, 83, 77, 65, 76, 76, 32, 76, 69, 84, 84, 69, 82, 32, 71>>,
      <<76, 65, 84, 73, 78, 32, 83, 77, 65, 76, 76, 32, 76, 69, 84, 84, 69, 82, 32, 72>>,
      <<76, 65, 84, 73, 78, 32, 83, 77, 65, 76, 76, 32, 76, 69, 84, 84, 69, 82, 32, 73>>,
      <<76, 65, 84, 73, 78, 32, 83, 77, 65, 76, 76, 32, 76, 69, 84, 84, 69, 82, 32, 74>>,
      <<76, 65, 84, 73, 78, 32, 83, 77, 65, 76, 76, 32, 76, 69, 84, 84, 69, 82, 32, 75>>,
      <<76, 65, 84, 73, 78, 32, 83, 77, 65, 76, 76, 32, 76, 69, 84, 84, 69, 82, 32, 76>>,
      <<76, 65, 84, 73, 78, 32, 83, 77, 65, 76, 76, 32, 76, 69, 84, 84, 69, 82, 32, 77>>,
      <<76, 65, 84, 73, 78, 32, 83, 77, 65, 76, 76, 32, 76, 69, 84, 84, 69, 82, 32, 78>>,
      <<76, 65, 84, 73, 78, 32, 83, 77, 65, 76, 76, 32, 76, 69, 84, 84, 69, 82, 32, 79>>,
      <<76, 65, 84, 73, 78, 32, 83, 77, 65, 76, 76, 32, 76, 69, 84, 84, 69, 82, 32, 80>>,
      <<76, 65, 84, 73, 78, 32, 83, 77, 65, 76, 76, 32, 76, 69, 84, 84, 69, 82, 32, 81>>,
      <<76, 65, 84, 73, 78, 32, 83, 77, 65, 76, 76, 32, 76, 69, 84, 84, 69, 82, 32, 82>>,
      <<76, 65, 84, 73, 78, 32, 83, 77, 65, 76, 76, 32, 76, 69, 84, 84, 69, 82, 32, 83>>,
      <<76, 65, 84, 73, 78, 32, 83, 77, 65, 76, 76, 32, 76, 69, 84, 84, 69, 82, 32, 84>>,
      <<76, 65, 84, 73, 78, 32, 83, 77, 65, 76, 76, 32, 76, 69, 84, 84, 69, 82, 32, 85>>,
      <<76, 65, 84, 73, 78, 32, 83, 77, 65, 76, 76, 32, 76, 69, 84, 84, 69, 82, 32, 86>>,
      <<76, 65, 84, 73, 78, 32, 83, 77, 65, 76, 76, 32, 76, 69, 84, 84, 69, 82, 32, 87>>,
      <<76, 65, 84, 73, 78, 32, 83, 77, 65, 76, 76, 32, 76, 69, 84, 84, 69, 82, 32, 88>>,
      <<76, 65, 84, 73, 78, 32, 83, 77, 65, 76, 76, 32, 76, 69, 84, 84, 69, 82, 32, 89>>,
      <<76, 65, 84, 73, 78, 32, 83, 77, 65, 76, 76, 32, 76, 69, 84, 84, 69, 82, 32, 90>>,
      <<76, 69, 70, 84, 32, 67, 85, 82, 76, 89, 32, 66, 82, 65, 67, 75, 69, 84>>,
      <<86, 69, 82, 84, 73, 67, 65, 76, 32, 76, 73, 78, 69>>,
      <<82, 73, 71, 72, 84, 32, 67, 85, 82, 76, 89, 32, 66, 82, 65, 67, 75, 69, 84>>,
      <<84, 73, 76, 68, 69>>,
      <<68, 69, 76>>,
      <<68, 69, 76, 69, 84, 69>>,
      <<80, 65, 68>>,
      <<80, 65, 68, 68, 73, 78, 71, 32, 67, 72, 65, 82, 65, 67, 84, 69, 82>>,
      <<72, 73, 71, 72, 32, 79, 67, 84, 69, 84, 32, 80, 82, 69, 83, 69, 84>>,
      <<72, 79, 80>>,
      <<66, 80, 72>>,
      <<66, 82, 69, 65, 75, 32, 80, 69, 82, 77, 73, 84, 84, 69, 68, 32, 72, 69, 82, 69>>,
      <<78, 66, 72>>,
      <<78, 79, 32, 66, 82, 69, 65, 75, 32, 72, 69, 82, 69>>,
      <<73, 78, 68>>,
      <<73, 78, 68, 69, 88>>,
      <<78, 69, 76>>,
      <<78, 69, 88, 84, 32, 76, 73, 78, 69>>,
      <<83, 83, 65>>,
      <<83, 84, 65, 82, 84, 32, 79, 70, 32, 83, 69, 76, 69, 67, 84, 69, 68, 32, 65, 82, 69, 65>>,
      <<69, 78, 68, 32, 79, 70, 32, 83, 69, 76, 69, 67, 84, 69, 68, 32, 65, 82, 69, 65>>,
      <<69, 83, 65>>,
      <<67, 72, 65, 82, 65, 67, 84, 69, 82, 32, 84, 65, 66, 85, 76, 65, 84, 73, 79, 78, 32, 83, 69, 84>>,
      <<72, 79, 82, 73, 90, 79, 78, 84, 65, 76, 32, 84, 65, 66, 85, 76, 65, 84, 73, 79, 78, 32, 83, 69, 84>>,
      <<72, 84, 83>>,
      <<67, 72, 65, 82, 65, 67, 84, 69, 82, 32, 84, 65, 66, 85, 76, 65, 84, 73, 79, 78, 32, 87, 73, 84, 72, 32, 74, 85, 83, 84, 73, 70, 73, 67, 65, 84, 73, 79, 78>>,
      <<72, 79, 82, 73, 90, 79, 78, 84, 65, 76, 32, 84, 65, 66, 85, 76, 65, 84, 73, 79, 78, 32, 87, 73, 84, 72, 32, 74, 85, 83, 84, 73, 70, 73, 67, 65, 84, 73, 79, 78>>,
      <<72, 84, 74>>,
      <<76, 73, 78, 69, 32, 84, 65, 66, 85, 76, 65, 84, 73, 79, 78, 32, 83, 69, 84>>,
      <<86, 69, 82, 84, 73, 67, 65, 76, 32, 84, 65, 66, 85, 76, 65, 84, 73, 79, 78, 32, 83, 69, 84>>,
      <<86, 84, 83>>,
      <<80, 65, 82, 84, 73, 65, 76, 32, 76, 73, 78, 69, 32, 68, 79, 87, 78>>,
      <<80, 65, 82, 84, 73, 65, 76, 32, 76, 73, 78, 69, 32, 70, 79, 82, 87, 65, 82, 68>>,
      <<80, 76, 68>>,
      <<80, 65, 82, 84, 73, 65, 76, 32, 76, 73, 78, 69, 32, 66, 65, 67, 75, 87, 65, 82, 68>>,
      <<80, 65, 82, 84, 73, 65, 76, 32, 76, 73, 78, 69, 32, 85, 80>>,
      <<80, 76, 85>>,
      <<82, 69, 86, 69, 82, 83, 69, 32, 73, 78, 68, 69, 88>>,
      <<82, 69, 86, 69, 82, 83, 69, 32, 76, 73, 78, 69, 32, 70, 69, 69, 68>>,
      <<82, 73>>,
      <<83, 73, 78, 71, 76, 69, 32, 83, 72, 73, 70, 84, 32, 84, 87, 79>>,
      <<83, 73, 78, 71, 76, 69, 45, 83, 72, 73, 70, 84, 45, 50>>,
      <<83, 83, 50>>,
      <<83, 73, 78, 71, 76, 69, 32, 83, 72, 73, 70, 84, 32, 84, 72, 82, 69, 69>>,
      <<83, 73, 78, 71, 76, 69, 45, 83, 72, 73, 70, 84, 45, 51>>,
      <<83, 83, 51>>,
      <<68, 67, 83>>,
      <<68, 69, 86, 73, 67, 69, 32, 67, 79, 78, 84, 82, 79, 76, 32, 83, 84, 82, 73, 78, 71>>,
      <<80, 82, 73, 86, 65, 84, 69, 32, 85, 83, 69, 32, 79, 78, 69>>,
      <<80, 82, 73, 86, 65, 84, 69, 32, 85, 83, 69, 45, 49>>,
      <<80, 85, 49>>,
      <<80, 82, 73, 86, 65, 84, 69, 32, 85, 83, 69, 32, 84, 87, 79>>,
      <<80, 82, 73, 86, 65, 84, 69, 32, 85, 83, 69, 45, 50>>,
      <<80, 85, 50>>,
      <<83, 69, 84, 32, 84, 82, 65, 78, 83, 77, 73, 84, 32, 83, 84, 65, 84, 69>>,
      <<83, 84, 83>>,
      <<67, 65, 78, 67, 69, 76, 32, 67, 72, 65, 82, 65, 67, 84, 69, 82>>,
      <<67, 67, 72>>,
      <<77, 69, 83, 83, 65, 71, 69, 32, 87, 65, 73, 84, 73, 78, 71>>,
      <<77, 87>>,
      <<83, 80, 65>>,
      <<83, 84, 65, 82, 84, 32, 79, 70, 32, 71, 85, 65, 82, 68, 69, 68, 32, 65, 82, 69, 65>>,
      <<83, 84, 65, 82, 84, 32, 79, 70, 32, 80, 82, 79, 84, 69, 67, 84, 69, 68, 32, 65, 82, 69, 65>>,
      <<69, 78, 68, 32, 79, 70, 32, 71, 85, 65, 82, 68, 69, 68, 32, 65, 82, 69, 65>>,
      <<69, 78, 68, 32, 79, 70, 32, 80, 82, 79, 84, 69, 67, 84, 69, 68, 32, 65, 82, 69, 65>>,
      <<69, 80, 65>>,
      <<83, 79, 83>>,
      <<83, 84, 65, 82, 84, 32, 79, 70, 32, 83, 84, 82, 73, 78, 71>>,
      <<83, 71, 67>>,
      <<83, 73, 78, 71, 76, 69, 32, 71, 82, 65, 80, 72, 73, 67, 32, 67, 72, 65, 82, 65, 67, 84, 69, 82, 32, 73, 78, 84, 82, 79, 68, 85, 67, 69, 82>>,
      <<83, 67, 73>>,
      <<83, 73, 78, 71, 76, 69, 32, 67, 72, 65, 82, 65, 67, 84, 69, 82, 32, 73, 78, 84, 82, 79, 68, 85, 67, 69, 82>>,
      <<67, 79, 78, 84, 82, 79, 76, 32, 83, 69, 81, 85, 69, 78, 67, 69, 32, 73, 78, 84, 82, 79, 68, 85, 67, 69, 82>>,
      <<67, 83, 73>>,
      <<83, 84>>,
      <<83, 84, 82, 73, 78, 71, 32, 84, 69, 82, 77, 73, 78, 65, 84, 79, 82>>,
      <<79, 80, 69, 82, 65, 84, 73, 78, 71, 32, 83, 89, 83, 84, 69, 77, 32, 67, 79, 77, 77, 65, 78, 68>>,
      <<79, 83, 67>>,
      <<80, 77>>,
      <<80, 82, 73, 86, 65, 67, 89, 32, 77, 69, 83, 83, 65, 71, 69>>,
      <<65, 80, 67>>,
      <<65, 80, 80, 76, 73, 67, 65, 84, 73, 79, 78, 32, 80, 82, 79, 71, 82, 65, 77, 32, 67, 79, 77, 77, 65, 78, 68>>,
      <<78, 66, 83, 80>>,
      <<78, 79, 45, 66, 82, 69, 65, 75, 32, 83, 80, 65, 67, 69>>,
      <<73, 78, 86, 69, 82, 84, 69, 68, 32, 69, 88, 67, 76, 65, 77, 65, 84, 73, 79, 78, 32, 77, 65, 82, 75>>,
      <<67, 69, 78, 84, 32, 83, 73, 71, 78>>,
      <<80, 79, 85, 78, 68, 32, 83, 73, 71, 78>>,
      <<67, 85, 82, 82, 69, 78, 67, 89, 32, 83, 73, 71, 78>>,
      <<89, 69, 78, 32, 83, 73, 71, 78>>,
      <<66, 82, 79, 75, 69, 78, 32, 66, 65, 82>>,
      <<83, 69, 67, 84, 73, 79, 78, 32, 83, 73, 71, 78>>,
      <<68, 73, 65, 69, 82, 69, 83, 73, 83>>,
      <<67, 79, 80, 89, 82, 73, 71, 72, 84, 32, 83, 73, 71, 78>>,
      <<70, 69, 77, 73, 78, 73, 78, 69, 32, 79, 82, 68, 73, 78, 65, 76, 32, 73, 78, 68, 73, 67, 65, 84, 79, 82>>,
      <<76, 69, 70, 84, 45, 80, 79, 73, 78, 84, 73, 78, 71, 32, 68, 79, 85, 66, 76, 69, 32, 65, 78, 71, 76, 69, 32, 81, 85, 79, 84, 65, 84, 73, 79, 78, 32, 77, 65, 82, 75>>,
      <<78, 79, 84, 32, 83, 73, 71, 78>>,
      <<83, 72, 89>>,
      <<83, 79, 70, 84, 32, 72, 89, 80, 72, 69, 78>>,
      <<82, 69, 71, 73, 83, 84, 69, 82, 69, 68, 32, 83, 73, 71, 78>>,
      <<77, 65, 67, 82, 79, 78>>,
      <<68, 69, 71, 82, 69, 69, 32, 83, 73, 71, 78>>,
      <<80, 76, 85, 83, 45, 77, 73, 78, 85, 83, 32, 83, 73, 71, 78>>,
      <<83, 85, 80, 69, 82, 83, 67, 82, 73, 80, 84, 32, 84, 87, 79>>,
      <<83, 85, 80, 69, 82, 83, 67, 82, 73, 80, 84, 32, 84, 72, 82, 69, 69>>,
      <<65, 67, 85, 84, 69, 32, 65, 67, 67, 69, 78, 84>>,
      <<77, 73, 67, 82, 79, 32, 83, 73, 71, 78>>,
      <<80, 73, 76, 67, 82, 79, 87, 32, 83, 73, 71, 78>>,
      <<77, 73, 68, 68, 76, 69, 32, 68, 79, 84>>,
      <<67, 69, 68, 73, 76, 76, 65>>,
      <<83, 85, 80, 69, 82, 83, 67, 82, 73, 80, 84, 32, 79, 78, 69>>,
      <<77, 65, 83, 67, 85, 76, 73, 78, 69, 32, 79, 82, 68, 73, 78, 65, 76, 32, 73, 78, 68, 73, 67, 65, 84, 79, 82>>,
      <<82, 73, 71, 72, 84, 45, 80, 79, 73, 78, 84, 73, 78, 71, 32, 68, 79, 85, 66, 76, 69, 32, 65, 78, 71, 76, 69, 32, 81, 85, 79, 84, 65, 84, 73, 79, 78, 32, 77, 65, 82, 75>>,
      <<86, 85, 76, 71, 65, 82, 32, 70, 82, 65, 67, 84, 73, 79, 78, 32, 79, 78, 69, 32, 81, 85, 65, 82, 84, 69, 82>>,
      <<86, 85, 76, 71, 65, 82, 32, 70, 82, 65, 67, 84, 73, 79, 78, 32, 79, 78, 69, 32, 72, 65, 76, 70>>,
      <<86, 85, 76, 71, 65, 82, 32, 70, 82, 65, 67, 84, 73, 79, 78, 32, 84, 72, 82, 69, 69, 32, 81, 85, 65, 82, 84, 69, 82, 83>>,
      <<73, 78, 86, 69, 82, 84, 69, 68, 32, 81, 85, 69, 83, 84, 73, 79, 78, 32, 77, 65, 82, 75>>,
      <<76, 65, 84, 73, 78, 32, 67, 65, 80, 73, 84, 65, 76, 32, 76, 69, 84, 84, 69, 82, 32, 65, 32, 87, 73, 84, 72, 32, 71, 82, 65, 86, 69>>,
      <<76, 65, 84, 73, 78, 32, 67, 65, 80, 73, 84, 65, 76, 32, 76, 69, 84, 84, 69, 82, 32, 65, 32, 87, 73, 84, 72, 32, 65, 67, 85, 84, 69>>,
      <<76, 65, 84, 73, 78, 32, 67, 65, 80, 73, 84, 65, 76, 32, 76, 69, 84, 84, 69, 82, 32, 65, 32, 87, 73, 84, 72, 32, 67, 73, 82, 67, 85, 77, 70, 76, 69, 88>>,
      <<76, 65, 84, 73, 78, 32, 67, 65, 80, 73, 84, 65, 76, 32, 76, 69, 84, 84, 69, 82, 32, 65, 32, 87, 73, 84, 72, 32, 84, 73, 76, 68, 69>>,
      <<76, 65, 84, 73, 78, 32, 67, 65, 80, 73, 84, 65, 76, 32, 76, 69, 84, 84, 69, 82, 32, 65, 32, 87, 73, 84, 72, 32, 68, 73, 65, 69, 82, 69, 83, 73, 83>>,
      <<76, 65, 84, 73, 78, 32, 67, 65, 80, 73, 84, 65, 76, 32, 76, 69, 84, 84, 69, 82, 32, 65, 32, 87, 73, 84, 72, 32, 82, 73, 78, 71, 32, 65, 66, 79, 86, 69>>,
      <<76, 65, 84, 73, 78, 32, 67, 65, 80, 73, 84, 65, 76, 32, 76, 69, 84, 84, 69, 82, 32, 65, 69>>,
      <<76, 65, 84, 73, 78, 32, 67, 65, 80, 73, 84, 65, 76, 32, 76, 69, 84, 84, 69, 82, 32, 67, 32, 87, 73, 84, 72, 32, 67, 69, 68, 73, 76, 76, 65>>,
      <<76, 65, 84, 73, 78, 32, 67, 65, 80, 73, 84, 65, 76, 32, 76, 69, 84, 84, 69, 82, 32, 69, 32, 87, 73, 84, 72, 32, 71, 82, 65, 86, 69>>,
      <<76, 65, 84, 73, 78, 32, 67, 65, 80, 73, 84, 65, 76, 32, 76, 69, 84, 84, 69, 82, 32, 69, 32, 87, 73, 84, 72, 32, 65, 67, 85, 84, 69>>,
      <<76, 65, 84, 73, 78, 32, 67, 65, 80, 73, 84, 65, 76, 32, 76, 69, 84, 84, 69, 82, 32, 69, 32, 87, 73, 84, 72, 32, 67, 73, 82, 67, 85, 77, 70, 76, 69, 88>>,
      <<76, 65, 84, 73, 78, 32, 67, 65, 80, 73, 84, 65, 76, 32, 76, 69, 84, 84, 69, 82, 32, 69, 32, 87, 73, 84, 72, 32, 68, 73, 65, 69, 82, 69, 83, 73, 83>>,
      <<76, 65, 84, 73, 78, 32, 67, 65, 80, 73, 84, 65, 76, 32, 76, 69, 84, 84, 69, 82, 32, 73, 32, 87, 73, 84, 72, 32, 71, 82, 65, 86, 69>>,
      <<76, 65, 84, 73, 78, 32, 67, 65, 80, 73, 84, 65, 76, 32, 76, 69, 84, 84, 69, 82, 32, 73, 32, 87, 73, 84, 72, 32, 65, 67, 85, 84, 69>>,
      <<76, 65, 84, 73, 78, 32, 67, 65, 80, 73, 84, 65, 76, 32, 76, 69, 84, 84, 69, 82, 32, 73, 32, 87, 73, 84, 72, 32, 67, 73, 82, 67, 85, 77, 70, 76, 69, 88>>,
      <<76, 65, 84, 73, 78, 32, 67, 65, 80, 73, 84, 65, 76, 32, 76, 69, 84, 84, 69, 82, 32, 73, 32, 87, 73, 84, 72, 32, 68, 73, 65, 69, 82, 69, 83, 73, 83>>,
      <<76, 65, 84, 73, 78, 32, 67, 65, 80, 73, 84, 65, 76, 32, 76, 69, 84, 84, 69, 82, 32, 69, 84, 72>>,
      <<76, 65, 84, 73, 78, 32, 67, 65, 80, 73, 84, 65, 76, 32, 76, 69, 84, 84, 69, 82, 32, 78, 32, 87, 73, 84, 72, 32, 84, 73, 76, 68, 69>>,
      <<76, 65, 84, 73, 78, 32, 67, 65, 80, 73, 84, 65, 76, 32, 76, 69, 84, 84, 69, 82, 32, 79, 32, 87, 73, 84, 72, 32, 71, 82, 65, 86, 69>>,
      <<76, 65, 84, 73, 78, 32, 67, 65, 80, 73, 84, 65, 76, 32, 76, 69, 84, 84, 69, 82, 32, 79, 32, 87, 73, 84, 72, 32, 65, 67, 85, 84, 69>>,
      <<76, 65, 84, 73, 78, 32, 67, 65, 80, 73, 84, 65, 76, 32, 76, 69, 84, 84, 69, 82, 32, 79, 32, 87, 73, 84, 72, 32, 67, 73, 82, 67, 85, 77, 70, 76, 69, 88>>,
      <<76, 65, 84, 73, 78, 32, 67, 65, 80, 73, 84, 65, 76, 32, 76, 69, 84, 84, 69, 82, 32, 79, 32, 87, 73, 84, 72, 32, 84, 73, 76, 68, 69>>,
      <<76, 65, 84, 73, 78, 32, 67, 65, 80, 73, 84, 65, 76, 32, 76, 69, 84, 84, 69, 82, 32, 79, 32, 87, 73, 84, 72, 32, 68, 73, 65, 69, 82, 69, 83, 73, 83>>,
      <<77, 85, 76, 84, 73, 80, 76, 73, 67, 65, 84, 73, 79, 78, 32, 83, 73, 71, 78>>,
      <<76, 65, 84, 73, 78, 32, 67, 65, 80, 73, 84, 65, 76, 32, 76, 69, 84, 84, 69, 82, 32, 79, 32, 87, 73, 84, 72, 32, 83, 84, 82, 79, 75, 69>>,
      <<76, 65, 84, 73, 78, 32, 67, 65, 80, 73, 84, 65, 76, 32, 76, 69, 84, 84, 69, 82, 32, 85, 32, 87, 73, 84, 72, 32, 71, 82, 65, 86, 69>>,
      <<76, 65, 84, 73, 78, 32, 67, 65, 80, 73, 84, 65, 76, 32, 76, 69, 84, 84, 69, 82, 32, 85, 32, 87, 73, 84, 72, 32, 65, 67, 85, 84, 69>>,
      <<76, 65, 84, 73, 78, 32, 67, 65, 80, 73, 84, 65, 76, 32, 76, 69, 84, 84, 69, 82, 32, 85, 32, 87, 73, 84, 72, 32, 67, 73, 82, 67, 85, 77, 70, 76, 69, 88>>,
      <<76, 65, 84, 73, 78, 32, 67, 65, 80, 73, 84, 65, 76, 32, 76, 69, 84, 84, 69, 82, 32, 85, 32, 87, 73, 84, 72, 32, 68, 73, 65, 69, 82, 69, 83, 73, 83>>,
      <<76, 65, 84, 73, 78, 32, 67, 65, 80, 73, 84, 65, 76, 32, 76, 69, 84, 84, 69, 82, 32, 89, 32, 87, 73, 84, 72, 32, 65, 67, 85, 84, 69>>,
      <<76, 65, 84, 73, 78, 32, 67, 65, 80, 73, 84, 65, 76, 32, 76, 69, 84, 84, 69, 82, 32, 84, 72, 79, 82, 78>>,
      <<76, 65, 84, 73, 78, 32, 83, 77, 65, 76, 76, 32, 76, 69, 84, 84, 69, 82, 32, 83, 72, 65, 82, 80, 32, 83>>,
      <<76, 65, 84, 73, 78, 32, 83, 77, 65, 76, 76, 32, 76, 69, 84, 84, 69, 82, 32, 65, 32, 87, 73, 84, 72, 32, 71, 82, 65, 86, 69>>,
      <<76, 65, 84, 73, 78, 32, 83, 77, 65, 76, 76, 32, 76, 69, 84, 84, 69, 82, 32, 65, 32, 87, 73, 84, 72, 32, 65, 67, 85, 84, 69>>,
      <<76, 65, 84, 73, 78, 32, 83, 77, 65, 76, 76, 32, 76, 69, 84, 84, 69, 82, 32, 65, 32, 87, 73, 84, 72, 32, 67, 73, 82, 67, 85, 77, 70, 76, 69, 88>>,
      <<76, 65, 84, 73, 78, 32, 83, 77, 65, 76, 76, 32, 76, 69, 84, 84, 69, 82, 32, 65, 32, 87, 73, 84, 72, 32, 84, 73, 76, 68, 69>>,
      <<76, 65, 84, 73, 78, 32, 83, 77, 65, 76, 76, 32, 76, 69, 84, 84, 69, 82, 32, 65, 32, 87, 73, 84, 72, 32, 68, 73, 65, 69, 82, 69, 83, 73, 83>>,
      <<76, 65, 84, 73, 78, 32, 83, 77, 65, 76, 76, 32, 76, 69, 84, 84, 69, 82, 32, 65, 32, 87, 73, 84, 72, 32, 82, 73, 78, 71, 32, 65, 66, 79, 86, 69>>,
      <<76, 65, 84, 73, 78, 32, 83, 77, 65, 76, 76, 32, 76, 69, 84, 84, 69, 82, 32, 65, 69>>,
      <<76, 65, 84, 73, 78, 32, 83, 77, 65, 76, 76, 32, 76, 69, 84, 84, 69, 82, 32, 67, 32, 87, 73, 84, 72, 32, 67, 69, 68, 73, 76, 76, 65>>,
      <<76, 65, 84, 73, 78, 32, 83, 77, 65, 76, 76, 32, 76, 69, 84, 84, 69, 82, 32, 69, 32, 87, 73, 84, 72, 32, 71, 82, 65, 86, 69>>,
      <<76, 65, 84, 73, 78, 32, 83, 77, 65, 76, 76, 32, 76, 69, 84, 84, 69, 82, 32, 69, 32, 87, 73, 84, 72, 32, 65, 67, 85, 84, 69>>,
      <<76, 65, 84, 73, 78, 32, 83, 77, 65, 76, 76, 32, 76, 69, 84, 84, 69, 82, 32, 69, 32, 87, 73, 84, 72, 32, 67, 73, 82, 67, 85, 77, 70, 76, 69, 88>>,
      <<76, 65, 84, 73, 78, 32, 83, 77, 65, 76, 76, 32, 76, 69, 84, 84, 69, 82, 32, 69, 32, 87, 73, 84, 72, 32, 68, 73, 65, 69, 82, 69, 83, 73, 83>>,
      <<76, 65, 84, 73, 78, 32, 83, 77, 65, 76, 76, 32, 76, 69, 84, 84, 69, 82, 32, 73, 32, 87, 73, 84, 72, 32, 71, 82, 65, 86, 69>>,
      <<76, 65, 84, 73, 78, 32, 83, 77, 65, 76, 76, 32, 76, 69, 84, 84, 69, 82, 32, 73, 32, 87, 73, 84, 72, 32, 65, 67, 85, 84, 69>>,
      <<76, 65, 84, 73, 78, 32, 83, 77, 65, 76, 76, 32, 76, 69, 84, 84, 69, 82, 32, 73, 32, 87, 73, 84, 72, 32, 67, 73, 82, 67, 85, 77, 70, 76, 69, 88>>,
      <<76, 65, 84, 73, 78, 32, 83, 77, 65, 76, 76, 32, 76, 69, 84, 84, 69, 82, 32, 73, 32, 87, 73, 84, 72, 32, 68, 73, 65, 69, 82, 69, 83, 73, 83>>,
      <<76, 65, 84, 73, 78, 32, 83, 77, 65, 76, 76, 32, 76, 69, 84, 84, 69, 82, 32, 69, 84, 72>>,
      <<76, 65, 84, 73, 78, 32, 83, 77, 65, 76, 76, 32, 76, 69, 84, 84, 69, 82, 32, 78, 32, 87, 73, 84, 72, 32, 84, 73, 76, 68, 69>>,
      <<76, 65, 84, 73, 78, 32, 83, 77, 65, 76, 76, 32, 76, 69, 84, 84, 69, 82, 32, 79, 32, 87, 73, 84, 72, 32, 71, 82, 65, 86, 69>>,
      <<76, 65, 84, 73, 78, 32, 83, 77, 65, 76, 76, 32, 76, 69, 84, 84, 69, 82, 32, 79, 32, 87, 73, 84, 72, 32, 65, 67, 85, 84, 69>>,
      <<76, 65, 84, 73, 78, 32, 83, 77, 65, 76, 76, 32, 76, 69, 84, 84, 69, 82, 32, 79, 32, 87, 73, 84, 72, 32, 67, 73, 82, 67, 85, 77, 70, 76, 69, 88>>,
      <<76, 65, 84, 73, 78, 32, 83, 77, 65, 76, 76, 32, 76, 69, 84, 84, 69, 82, 32, 79, 32, 87, 73, 84, 72, 32, 84, 73, 76, 68, 69>>,
      <<76, 65, 84, 73, 78, 32, 83, 77, 65, 76, 76, 32, 76, 69, 84, 84, 69, 82, 32, 79, 32, 87, 73, 84, 72, 32, 68, 73, 65, 69, 82, 69, 83, 73, 83>>,
      <<68, 73, 86, 73, 83, 73, 79, 78, 32, 83, 73, 71, 78>>,
      <<76, 65, 84, 73, 78, 32, 83, 77, 65, 76, 76, 32, 76, 69, 84, 84, 69, 82, 32, 79, 32, 87, 73, 84, 72, 32, 83, 84, 82, 79, 75, 69>>,
      <<76, 65, 84, 73, 78, 32, 83, 77, 65, 76, 76, 32, 76, 69, 84, 84, 69, 82, 32, 85, 32, 87, 73, 84, 72, 32, 71, 82, 65, 86, 69>>,
      <<76, 65, 84, 73, 78, 32, 83, 77, 65, 76, 76, 32, 76, 69, 84, 84, 69, 82, 32, 85, 32, 87, 73, 84, 72, 32, 65, 67, 85, 84, 69>>,
      <<76, 65, 84, 73, 78, 32, 83, 77, 65, 76, 76, 32, 76, 69, 84, 84, 69, 82, 32, 85, 32, 87, 73, 84, 72, 32, 67, 73, 82, 67, 85, 77, 70, 76, 69, 88>>,
      <<76, 65, 84, 73, 78, 32, 83, 77, 65, 76, 76, 32, 76, 69, 84, 84, 69, 82, 32, 85, 32, 87, 73, 84, 72, 32, 68, 73, 65, 69, 82, 69, 83, 73, 83>>,
      <<76, 65, 84, 73, 78, 32, 83, 77, 65, 76, 76, 32, 76, 69, 84, 84, 69, 82, 32, 89, 32, 87, 73, 84, 72, 32, 65, 67, 85, 84, 69>>,
      <<76, 65, 84, 73, 78, 32, 83, 77, 65, 76, 76, 32, 76, 69, 84, 84, 69, 82, 32, 84, 72, 79, 82, 78>>,
      <<76, 65, 84, 73, 78, 32, 83, 77, 65, 76, 76, 32, 76, 69, 84, 84, 69, 82, 32, 89, 32, 87, 73, 84, 72, 32, 68, 73, 65, 69, 82, 69, 83, 73, 83>> >>

CharCodes ==
    <<
      0, 0, 1, 1, 2, 2, 3, 3, 4, 4, 5, 5, 6, 6, 7, 7, 8, 8, 9, 9, 9, 9, 10, 10,
      10, 10, 10, 10, 11, 11, 11, 12, 12, 13, 13, 14, 14, 14, 15, 15, 15, 16,
      16, 17, 17, 18, 18, 19, 19, 20, 20, 21, 21, 22, 22, 23, 23, 24, 24, 25,
      25, 26, 26, 27, 27, 28, 28, 28, 29, 29, 29, 30, 30, 30, 31, 31, 31, 32,
      32, 33, 34, 35, 36, 37, 38, 39, 40, 41, 42, 43, 44, 45, 46, 47, 48, 49,
      50, 51, 52, 53, 54, 55, 56, 57, 58, 59, 60, 61, 62, 63, 64, 65, 66, 67,
      68, 69, 70, 71, 72, 73, 74, 75, 76, 77, 78, 79, 80, 81, 82, 83, 84, 85,
      86, 87, 88, 89, 90, 91, 92, 93, 94, 95, 96, 97, 98, 99, 100, 101, 102,
      103, 104, 105, 106, 107, 108, 109, 110, 111, 112, 113, 114, 115, 116, 117,
      118, 119, 120, 121, 122, 123, 124, 125, 126, 127, 127, 128, 128, 129, 129,
      130, 130, 131, 131, 132, 132, 133, 133, 134, 134, 135, 135, 136, 136, 136,
      137, 137, 137, 138, 138, 138, 139, 139, 139, 140, 140, 140, 141, 141, 141,
      142, 142, 142, 143, 143, 143, 144, 144, 145, 145, 145, 146, 146, 146, 147,
      147, 148, 148, 149, 149, 150, 150, 150, 151, 151, 151, 152, 152, 153, 153,
      154, 154, 155, 155, 156, 156, 157, 157, 158, 158, 159, 159, 160, 160, 161,
      162, 163, 164, 165, 166, 167, 168, 169, 170, 171, 172, 173, 173, 174, 175,
      176, 177, 178, 179, 180, 181, 182, 183, 184, 185, 186, 187, 188, 189, 190,
      191, 192, 193, 194, 195, 196, 197, 198, 199, 200, 201, 202, 203, 204, 205,
      206, 207, 208, 209, 210, 211, 212, 213, 214, 215, 216, 217, 218, 219, 220,
      221, 222, 223, 224, 225, 226, 227, 228, 229, 230, 231, 232, 233, 234, 235,
      236, 237, 238, 239, 240, 241, 242, 243, 244, 245, 246, 247, 248, 249, 250,
      251, 252, 253, 254, 255>>

\* a name in capitals: the lookup of \N{...} does not tell the cases apart
UpperName(name) ==
    [k \in DOMAIN name |-> IF 97 <= name[k] /\ name[k] <= 122 THEN name[k] - 32
                           ELSE name[k]]

\* the position of the closing brace from s on, 0 when there is none
ClosingBrace(bytes, s) ==
    IF \E b \in s..Len(bytes) : bytes[b] = 125
    THEN CHOOSE b \in s..Len(bytes) :
             bytes[b] = 125 /\ \A k \in s..(b - 1) : bytes[k] # 125
    ELSE 0

\* b"\N{name}".decode("unicode_escape").encode("latin1"): the byte of the
\* named character; a name of no character raises UnicodeDecodeError in the
\* first call, and the name of a character from U+0100 on raises
\* UnicodeEncodeError in the second
NamedLatin1(name) ==
    IF \E n \in DOMAIN CharNames : CharNames[n] = UpperName(name)
    THEN Returned(<<CharCodes[CHOOSE n \in DOMAIN CharNames :
                                  CharNames[n] = UpperName(name)]>>)
    ELSE Raised

\* the escapes of one letter: \\ \' \" \b \f \t \n \r \v \a
SimpleEscapes == {92, 39, 34, 98, 102, 116, 110, 114, 118, 97}
SimpleEscape(byte) ==
    IF byte = 98 THEN 8
    ELSE IF byte = 102 THEN 12
    ELSE IF byte = 116 THEN 9
    ELSE IF byte = 110 THEN 10
    ELSE IF byte = 114 THEN 13
    ELSE IF byte = 118 THEN 11
    ELSE IF byte = 97 THEN 7
    ELSE byte

\* the position of the first backslash from i on, Len(bytes) + 1 when there
\* is none
NextBackslash(bytes, i) ==
    CHOOSE b \in i..(Len(bytes) + 1) :
        /\ b <= Len(bytes) => bytes[b] = 92
        /\ \A k \in i..(b - 1) : bytes[k] # 92

\* bytes.decode("unicode_escape").encode("latin1") from position i on, the
\* two calls of lines 150-151 taken together: a byte is the character of its
\* value and then that byte again, a backslash begins an escape, and an
\* escape that writes a character from U+0100 on raises in encode("latin1")
\* where a broken escape raises in decode("unicode_escape")
RECURSIVE UnicodeEscapeLatin1(_, _, _)
RECURSIVE OctalEscape(_, _, _, _)
RECURSIVE HexEscape(_, _, _, _)
RECURSIVE NamedEscape(_, _, _)
RECURSIVE Escape(_, _, _, _)
UnicodeEscapeLatin1(bytes, i, out) ==
    IF i > Len(bytes) THEN Returned(out)
    ELSE IF bytes[i] # 92
         THEN UnicodeEscapeLatin1(bytes, NextBackslash(bytes, i),
                                  out \o Slice(bytes, i, NextBackslash(bytes, i) - 1))
    ELSE IF i = Len(bytes) THEN Raised
    ELSE Escape(bytes, i + 2, bytes[i + 1], out)

\* an escape of one to three octal digits, digit the value of the first and
\* s the position after it: up to \377 a byte, from \400 on a character
\* that encode("latin1") refuses
OctalEscape(bytes, s, digit, out) ==
    IF OctalNumber(bytes, s, digit) > 255 THEN Raised
    ELSE UnicodeEscapeLatin1(bytes, s + OctalMore(bytes, s),
                             Append(out, OctalNumber(bytes, s, digit)))

\* \xXX, \uXXXX and \UXXXXXXXX, s the position of the first digit: digits
\* missing or a number above 0x10FFFF raise UnicodeDecodeError, another number
\* above 0xFF raises UnicodeEncodeError
HexEscape(bytes, s, count, out) ==
    IF HexNumber(bytes, s, count, 0) < 0 \/ HexNumber(bytes, s, count, 0) > 255
    THEN Raised
    ELSE UnicodeEscapeLatin1(bytes, s + count,
                             Append(out, HexNumber(bytes, s, count, 0)))

\* \N{name}, s the position after the N: no brace, no closing brace or no
\* name raise UnicodeDecodeError, as a name of no character does
NamedEscape(bytes, s, out) ==
    IF s > Len(bytes) \/ bytes[s] # 123 \/ ClosingBrace(bytes, s + 1) <= s + 1
    THEN Raised
    ELSE IF NamedLatin1(Slice(bytes, s + 1, ClosingBrace(bytes, s + 1) - 1)).raised
         THEN Raised
    ELSE UnicodeEscapeLatin1(bytes, ClosingBrace(bytes, s + 1) + 1,
             out \o NamedLatin1(Slice(bytes, s + 1,
                                      ClosingBrace(bytes, s + 1) - 1)).value)

\* the escape of the byte after a backslash, s the position after that byte;
\* a backslash before another byte stays, and the byte after it
Escape(bytes, s, byte, out) ==
    IF byte = 10 THEN UnicodeEscapeLatin1(bytes, s, out)
    ELSE IF byte \in SimpleEscapes
         THEN UnicodeEscapeLatin1(bytes, s, Append(out, SimpleEscape(byte)))
    ELSE IF 48 <= byte /\ byte <= 55 THEN OctalEscape(bytes, s, byte - 48, out)
    ELSE IF byte = 120 THEN HexEscape(bytes, s, 2, out)
    ELSE IF byte = 117 THEN HexEscape(bytes, s, 4, out)
    ELSE IF byte = 85 THEN HexEscape(bytes, s, 8, out)
    ELSE IF byte = 78 THEN NamedEscape(bytes, s, out)
    ELSE UnicodeEscapeLatin1(bytes, s, out \o <<92, byte>>)

\* the byte at position j continues a character
Continues(bytes, j) == j <= Len(bytes) /\ 128 <= bytes[j] /\ bytes[j] <= 191

\* the number of bytes of the character a byte begins, 0 for a byte that
\* begins none
Utf8Width(byte) ==
    IF byte < 128 THEN 1
    ELSE IF 194 <= byte /\ byte <= 223 THEN 2
    ELSE IF 224 <= byte /\ byte <= 239 THEN 3
    ELSE IF 240 <= byte /\ byte <= 244 THEN 4
    ELSE 0

\* a whole character begins at position i, and not one written with more
\* bytes than it needs, a surrogate or a code point above U+10FFFF
Utf8Char(bytes, i) ==
    /\ Utf8Width(bytes[i]) > 0
    /\ \A j \in (i + 1)..(i + Utf8Width(bytes[i]) - 1) : Continues(bytes, j)
    /\ bytes[i] = 224 => bytes[i + 1] >= 160
    /\ bytes[i] = 237 => bytes[i + 1] <= 159
    /\ bytes[i] = 240 => bytes[i + 1] >= 144
    /\ bytes[i] = 244 => bytes[i + 1] <= 143

\* the code point of the character at position i
Utf8CodePoint(bytes, i) ==
    IF Utf8Width(bytes[i]) = 1 THEN bytes[i]
    ELSE IF Utf8Width(bytes[i]) = 2
         THEN (bytes[i] - 192) * 64 + (bytes[i + 1] - 128)
    ELSE IF Utf8Width(bytes[i]) = 3
         THEN (bytes[i] - 224) * 4096 + (bytes[i + 1] - 128) * 64
              + (bytes[i + 2] - 128)
    ELSE (bytes[i] - 240) * 262144 + (bytes[i + 1] - 128) * 4096
         + (bytes[i + 2] - 128) * 64 + (bytes[i + 3] - 128)

\* the characters that begin at the positions lo..hi
RECURSIVE CodePointsFrom(_, _, _)
CodePointsFrom(bytes, lo, hi) ==
    IF lo > hi THEN <<>>
    ELSE IF lo = hi
         THEN (IF Continues(bytes, lo) THEN <<>> ELSE <<Utf8CodePoint(bytes, lo)>>)
    ELSE CodePointsFrom(bytes, lo, (lo + hi) \div 2)
         \o CodePointsFrom(bytes, (lo + hi) \div 2 + 1, hi)

\* bytes.decode("utf-8"): the bytes are whole characters one after the
\* other, or UnicodeDecodeError
DecodeUtf8(bytes) ==
    IF \A i \in DOMAIN bytes :
           IF Continues(bytes, i) THEN i > 1
           ELSE Utf8Char(bytes, i) /\ ~Continues(bytes, i + Utf8Width(bytes[i]))
    THEN Returned(CodePointsFrom(bytes, 1, Len(bytes)))
    ELSE Raised

\* lines 144-156, one conversion after the other: an exception of any of
\* them leaves the text as it was
AfterDecodeUtf8(text, decoded) ==
    IF decoded.raised THEN text ELSE decoded.value

AfterLatin1(text, bytes) ==
    IF bytes.raised THEN text
    ELSE AfterDecodeUtf8(text, DecodeUtf8(bytes.value))

AfterUtf8(text, bytes) ==
    IF bytes.raised THEN text
    ELSE AfterLatin1(text, UnicodeEscapeLatin1(bytes.value, 1, <<>>))

\* error_code.encode("utf-8").decode("unicode_escape").encode("latin1")
\* .decode("utf-8"), or error_code when one of them raises
Unescaped(text) == AfterUtf8(text, EncodeUtf8(text))

-----------------------------------------------------------------------------
(* main.py: the handlers of the HttpTask virtual object and of BatchService *)
(*                                                                         *)
(* A handler of a virtual object runs exclusively on its key. A handler     *)
(* gives way to the others where it awaits: a step is the run of a handler  *)
(* from one await to the next. An invocation sent with a delay may run at   *)
(* any later step.                                                          *)

MaxCalls == 2
MaxRetryCount == 7

Keys == {"DH1", "DH2"}

\* the product code of the examples, and the same code as a server writes
\* it that escapes the digit, MH\u0031 with its backslash
MH1 == <<77, 72, 49>>
EscapedMH1 == <<77, 72, 92, 117, 48, 48, 51, 49>>

\* the errorCode of the server for a product code that is not known
NotFound(code) == MaHangWords \o <<32>> \o code \o <<32>> \o KhongTonTaiWords

\* HttpResponse as execute_request reads it; response_data is the JSON
\* object of the answer, with a text under "errorCode" or without the key
Success ==
    [success |-> TRUE, needs_manual_retry |-> FALSE, response_data |-> EmptyDict]
Failure(response_data) ==
    [success |-> FALSE, needs_manual_retry |-> TRUE, response_data |-> response_data]

\* what make_http_request may return
Responses ==
    {Success, Failure(EmptyDict), Failure([errorCode |-> NotFound(EscapedMH1)])}

\* the lists of task ids of the requests of a batch: no request, or one
Batches == {<<>>} \cup {<<k>> : k \in Keys}

\* what ctx.get returns for a state entry that is not set, and the response
\* of a TaskStatus that has none: None, written as a record so that it can be
\* compared with a TaskStatus or an HttpResponse
NoValue == [none |-> TRUE]
Absent(v) == "none" \in DOMAIN v

\* lines 62-66: the stored TaskStatus, or a new one
TaskStatusOr(stored, task_id) ==
    IF Absent(stored)
    THEN [task_id |-> task_id, detail |-> "pending", retry_count |-> 0, response |-> NoValue]
    ELSE stored

\* lines 139-142: the codes found, appended when not yet in the list
RECURSIVE AppendUnique(_, _, _)
AppendUnique(codes, matches, i) ==
    IF i > Len(matches) THEN codes
    ELSE AppendUnique(IF matches[i] \in Range(codes) THEN codes
                      ELSE Append(codes, matches[i]),
                      matches, i + 1)

\* response.response_data and response.response_data.get("errorCode"): the
\* object has the key, and the text under it is not empty
HasErrorCode(response) ==
    /\ "errorCode" \in DOMAIN response.response_data
    /\ response.response_data.errorCode # <<>>

\* the condition of lines 126-130
StoresErrorCode(response) ==
    HasErrorCode(response) /\ response.needs_manual_retry

\* lines 136-137 and 147-156: the matches of the pattern in the errorCode,
\* and the errorCode after the conversions
Derived(response) ==
    [matches |-> FindAll(response.response_data.errorCode),
     error_code |-> Unescaped(response.response_data.errorCode)]

\* the same for the responses of make_http_request, worked out once for each
DerivedOf ==
    [response \in {r \in Responses : HasErrorCode(r)} |-> Derived(response)]

FromErrorCode(response) ==
    IF response \in DOMAIN DerivedOf THEN DerivedOf[response]
    ELSE Derived(response)

\* lines 126-142: non_existing_codes after the response
CodesAfter(codes, response) ==
    IF StoresErrorCode(response)
    THEN AppendUnique(codes, FromErrorCode(response).matches, 1)
    ELSE codes

\* lines 126-160: the state entry "status" after the response
StatusAfter(status, response) ==
    IF StoresErrorCode(response) THEN FromErrorCode(response).error_code
    ELSE IF response.success THEN None
    ELSE status

\* a delay that is not capped at 300 seconds
retry_delay_uncapped(retry_count) == 5 * 2^Min2(retry_count, 6)

\* lines 171-173: the delay of the automatic retry, in seconds
retry_delay(retry_count) == Min2(300, 5 * 2^Min2(retry_count, 6))

\* an invocation sent to execute_request of the task
ExecuteInvocation(task_id, send_delay, sent_by) ==
    [handler |-> "execute_request", key |-> task_id, send_delay |-> send_delay,
     sent_by |-> sent_by]

\* the invocation submit_batch sends to send_single_email, 10 minutes late
EmailInvocation ==
    [handler |-> "send_single_email", key |-> "", send_delay |-> 600,
     sent_by |-> "submit_batch"]

\* a failure stored with no retry sent
NeedsRetryUnsent(task_status, task_id, status, codes, response) ==
    [detail |-> [task_status EXCEPT !.retry_count = task_status.retry_count + 1,
                                    !.detail = "needs_retry",
                                    !.response = response],
     status |-> status,
     codes |-> codes,
     sent |-> EmptyBag]

\* lines 163-183: the TaskStatus stored, and the retry sent
NeedsRetry(task_status, task_id, status, codes, response) ==
    [detail |-> [task_status EXCEPT !.retry_count = task_status.retry_count + 1,
                                    !.detail = "needs_retry",
                                    !.response = response],
     status |-> status,
     codes |-> codes,
     sent |-> SetToBag({ExecuteInvocation(task_id,
                            retry_delay(task_status.retry_count + 1),
                            "execute_request")})]

\* lines 184-187: ctx.clear_all()
Completed(codes) ==
    [detail |-> NoValue, status |-> None, codes |-> codes, sent |-> EmptyBag]

\* lines 62-70: the TaskStatus execute_request stores before it sends the
\* HTTP request
Running(stored, task_id) ==
    [TaskStatusOr(stored, task_id) EXCEPT !.detail = "running"]

\* lines 126-187 of execute_request: the two state entries of the task, the
\* list of codes and the invocations sent, after the response; task_status is
\* the one the handler stored before the request
execute_request(task_status, status, codes, task_id, response) ==
    IF response.needs_manual_retry
    THEN NeedsRetry(task_status, task_id,
                    StatusAfter(status, response), CodesAfter(codes, response),
                    response)
    ELSE Completed(CodesAfter(codes, response))

\* lines 210-221 and 224-227: what the two read-only handlers return
get_task_status(task_id) == kv_detail[task_id]
get_status(task_id) == kv_status[task_id]

\* retry_count as stored, 0 for a task without state
StoredRetryCount(task_id) == TaskStatusOr(kv_detail[task_id], task_id).retry_count

\* lines 201-204: retry_task stores the count incremented and "running"
Retried(stored) ==
    [stored EXCEPT !.retry_count = stored.retry_count + 1, !.detail = "running"]

\* the variables the handlers of main.py leave alone
rest_of_service == <<frame_vars, call_vars, find_vars, match_vars, sqlite_vars>>

ServiceInit ==
    /\ pc = "serving"
    /\ kv_detail = [k \in Keys |-> NoValue]
    /\ kv_status = [k \in Keys |-> None]
    /\ in_flight = [k \in Keys |-> NoValue]
    /\ non_existing_codes = <<>>
    /\ email_scheduler_active = FALSE
    /\ first_submit_time = None
    /\ invocations = EmptyBag
    /\ emailed = {}
    /\ calls = 0
    /\ ProcessIdle
    /\ DistanceIdle
    /\ FindIdle
    /\ MatchIdle
    /\ SqliteIdle

\* the handlers of a task key run one at a time: none is awaiting a response
KeyFree(task_id) == Absent(in_flight[task_id])

\* execute_request run for an invocation sent earlier, up to the HTTP request
\* (lines 62-122): "running" is stored, and the handler awaits the response
ExecuteRequest(inv) ==
    /\ pc = "serving"
    /\ BagIn(inv, invocations)
    /\ inv.handler = "execute_request"
    /\ KeyFree(inv.key)
    /\ invocations' = invocations (-) SetToBag({inv})
    /\ kv_detail' = [kv_detail EXCEPT ![inv.key] = Running(kv_detail[inv.key], inv.key)]
    /\ in_flight' = [in_flight EXCEPT ![inv.key] = Running(kv_detail[inv.key], inv.key)]
    /\ UNCHANGED <<pc, kv_status, non_existing_codes, email_scheduler_active,
                   first_submit_time, emailed, calls>>
    /\ UNCHANGED rest_of_service

\* retry_task called for a task with state, up to the HTTP request: lines
\* 194-207, then 62-122 of execute_request, which reads what was just stored
RetryTask(task_id) ==
    /\ pc = "serving"
    /\ calls < MaxCalls
    /\ KeyFree(task_id)
    /\ ~Absent(kv_detail[task_id])
    /\ StoredRetryCount(task_id) < MaxRetryCount
    /\ kv_detail' = [kv_detail EXCEPT
                        ![task_id] = Running(Retried(kv_detail[task_id]), task_id)]
    /\ in_flight' = [in_flight EXCEPT
                        ![task_id] = Running(Retried(kv_detail[task_id]), task_id)]
    /\ calls' = calls + 1
    /\ UNCHANGED <<pc, kv_status, non_existing_codes, email_scheduler_active,
                   first_submit_time, invocations, emailed>>
    /\ UNCHANGED rest_of_service

\* the assignments of execute_request after the response, done being what
\* execute_request gives
TaskAssign(task_id, done) ==
    /\ kv_detail' = [kv_detail EXCEPT ![task_id] = done.detail]
    /\ kv_status' = [kv_status EXCEPT ![task_id] = done.status]
    /\ non_existing_codes' = done.codes
    /\ invocations' = invocations (+) done.sent

\* the HTTP request of the handler of the task returns this response, and
\* execute_request runs to its end: lines 122-187
HttpResponded(task_id, response) ==
    /\ pc = "serving"
    /\ ~KeyFree(task_id)
    /\ response.needs_manual_retry => in_flight[task_id].retry_count < MaxRetryCount
    /\ \E done \in {execute_request(in_flight[task_id], kv_status[task_id],
                                     non_existing_codes, task_id, response)} :
           TaskAssign(task_id, done)
    /\ in_flight' = [in_flight EXCEPT ![task_id] = NoValue]
    /\ UNCHANGED <<pc, email_scheduler_active, first_submit_time, emailed, calls>>
    /\ UNCHANGED rest_of_service

\* retry_task called for a task without state: TerminalError, lines 195-199
RetryTaskNotFound(task_id) ==
    /\ pc = "serving"
    /\ calls < MaxCalls
    /\ Absent(kv_detail[task_id])
    /\ calls' = calls + 1
    /\ UNCHANGED <<pc, kv_detail, kv_status, in_flight, non_existing_codes,
                   email_scheduler_active, first_submit_time, invocations, emailed>>
    /\ UNCHANGED rest_of_service

\* lines 399-416: one invocation of execute_request for each request
RECURSIVE SentTasks(_, _)
SentTasks(requests, i) ==
    IF i > Len(requests) THEN EmptyBag
    ELSE SetToBag({ExecuteInvocation(requests[i], 0, "submit_batch")})
         (+) SentTasks(requests, i + 1)

\* lines 389-397: the email invocation, sent when the flag is not set
SentEmail(active) == IF active THEN EmptyBag ELSE SetToBag({EmailInvocation})

\* submit_batch called with the requests of these task ids
SubmitBatch(requests) ==
    /\ pc = "serving"
    /\ calls < MaxCalls
    /\ first_submit_time' = IF email_scheduler_active THEN first_submit_time
                            ELSE <<"time">>
    /\ email_scheduler_active' = TRUE
    /\ invocations' = invocations (+) SentEmail(email_scheduler_active)
                                  (+) SentTasks(requests, 1)
    /\ calls' = calls + 1
    /\ UNCHANGED <<pc, kv_detail, kv_status, in_flight, non_existing_codes, emailed>>
    /\ UNCHANGED rest_of_service

\* send_single_email run for the invocation sent earlier, the email being
\* sent when there are codes: lines 421-440, and 354-361 of
\* send_non_existing_codes_email
SendSingleEmail(inv) ==
    /\ pc = "serving"
    /\ BagIn(inv, invocations)
    /\ inv.handler = "send_single_email"
    /\ invocations' = invocations (-) SetToBag({inv})
    /\ emailed' = emailed \cup Range(non_existing_codes)
    /\ non_existing_codes' = <<>>
    /\ email_scheduler_active' = FALSE
    /\ UNCHANGED <<pc, kv_detail, kv_status, in_flight, first_submit_time, calls>>
    /\ UNCHANGED rest_of_service

\* send_single_email run while sending fails: the exception is caught
\* (lines 373-381), the list is kept and the flag is reset all the same
SendSingleEmailFails(inv) ==
    /\ pc = "serving"
    /\ BagIn(inv, invocations)
    /\ inv.handler = "send_single_email"
    /\ non_existing_codes # <<>>
    /\ invocations' = invocations (-) SetToBag({inv})
    /\ email_scheduler_active' = FALSE
    /\ UNCHANGED <<pc, kv_detail, kv_status, in_flight, non_existing_codes,
                   first_submit_time, emailed, calls>>
    /\ UNCHANGED rest_of_service

\* send_single_email run while closing the connection fails: server.quit()
\* raises after sendmail returned (lines 354-359), so the email was sent, and
\* the exception skips the clear() of line 361: the list is kept
SendSingleEmailQuitFails(inv) ==
    /\ pc = "serving"
    /\ BagIn(inv, invocations)
    /\ inv.handler = "send_single_email"
    /\ non_existing_codes # <<>>
    /\ invocations' = invocations (-) SetToBag({inv})
    /\ emailed' = emailed \cup Range(non_existing_codes)
    /\ email_scheduler_active' = FALSE
    /\ UNCHANGED <<pc, kv_detail, kv_status, in_flight, non_existing_codes,
                   first_submit_time, calls>>
    /\ UNCHANGED rest_of_service

\* stop_email_scheduler called: lines 443-451
StopEmailScheduler ==
    /\ pc = "serving"
    /\ calls < MaxCalls
    /\ email_scheduler_active' = FALSE
    /\ first_submit_time' = None
    /\ calls' = calls + 1
    /\ UNCHANGED <<pc, kv_detail, kv_status, in_flight, non_existing_codes, invocations,
                   emailed>>
    /\ UNCHANGED rest_of_service

\* an invocation of execute_request starts to run
RunExecuteRequest ==
    \E inv \in BagToSet(invocations) : ExecuteRequest(inv)

\* the HTTP request of a handler returns, or times out after 30 seconds
RunHttpRequest ==
    \E task_id \in Keys, response \in Responses : HttpResponded(task_id, response)

\* an invocation of send_single_email runs and sending succeeds
RunSendSingleEmail ==
    \E inv \in BagToSet(invocations) : SendSingleEmail(inv)

\* an invocation of send_single_email runs and sending fails
RunSendSingleEmailFails ==
    \E inv \in BagToSet(invocations) :
        SendSingleEmailFails(inv) \/ SendSingleEmailQuitFails(inv)

\* a call from outside
Called ==
    \/ \E requests \in Batches : SubmitBatch(requests)
    \/ \E task_id \in Keys : RetryTask(task_id)
    \/ \E task_id \in Keys : RetryTaskNotFound(task_id)
    \/ StopEmailScheduler

ServiceNext ==
    \/ Called
    \/ RunExecuteRequest
    \/ RunHttpRequest
    \/ RunSendSingleEmail
    \/ RunSendSingleEmailFails

ServiceSpec == ServiceInit /\ [][ServiceNext]_vars

\* the service when sending succeeds and the invocations sent run in the end
ServiceSendingNext ==
    \/ Called
    \/ RunExecuteRequest
    \/ RunHttpRequest
    \/ RunSendSingleEmail

\* an invocation that was sent is run by the runtime once its delay is over,
\* and the HTTP request of a handler returns
ServiceFairSpec ==
    /\ ServiceInit
    /\ [][ServiceSendingNext]_vars
    /\ WF_vars(RunExecuteRequest)
    /\ WF_vars(RunHttpRequest)
    /\ WF_vars(RunSendSingleEmail)

-----------------------------------------------------------------------------
(* The handlers of main-sqlite.py: the orders that failed are kept in a     *)
(* database, and submit_batch calls execute_request for each request. A     *)
(* step of execute_request ends at an await (of the HTTP request, of the   *)
(* deletion or the logging of the order, of the update of statistics) or    *)
(* where query_from_thread takes or has released sqlite_lock: the actions   *)
(* the other handlers await run under the same lock and can run in between  *)

\* the product code of the one detail line of the request of a task
MH2 == <<77, 72, 50>>
RequestCode(task_id) == IF task_id = "DH1" THEN MH1 ELSE MH2

\* "Chứng từ" and "đã nhập.", the words of the pattern of line 588
ChungTuWords == <<67, 104, 7913, 110, 103, 32, 116, 7915>>
DaNhapWords == <<273, 227, 32, 110, 104, 7853, 112, 46>>

\* the errorCode of the server for a document that was entered already
AlreadyEntered(document) ==
    ChungTuWords \o <<32>> \o document \o <<32>> \o DaNhapWords

\* re.search(duplicate_pattern, text) (lines 588-589): "Chứng từ", white
\* space, one character or more none of which ends a line, white space and
\* "đã nhập.", j being the position after "Chứng từ" and q that of "đã nhập."
DuplicateFound(text) ==
    \E i \in 1..Len(text), q \in 1..Len(text) :
        /\ WordsAt(text, i, ChungTuWords)
        /\ WordsAt(text, q, DaNhapWords)
        /\ \E a \in (i + Len(ChungTuWords) + 1)..(q - 2) :
             \E b \in a..(q - 2) :
               /\ \A k \in (i + Len(ChungTuWords))..(a - 1) : text[k] \in SpaceCodes
               /\ \A k \in a..b : text[k] # 10
               /\ \A k \in (b + 1)..(q - 1) : text[k] \in SpaceCodes

\* "HTTP 500 error", the error of a response with that status (line 539)
Http500Error == <<72, 84, 84, 80, 32, 53, 48, 48, 32, 101, 114, 114, 111, 114>>

\* the responses of the server: a success, a failure with no errorCode, a
\* failure whose errorCode names a product that does not exist, and a failure
\* whose errorCode says that the document was entered already
SqliteResponse(success, response_data) ==
    [success |-> success, needs_manual_retry |-> ~success,
     response_data |-> response_data,
     error |-> IF success THEN None ELSE Http500Error]

DuplicateDocument == SqliteResponse(FALSE, [errorCode |-> AlreadyEntered(<<68, 72, 49>>)])

\* an errorCode that names two products
TwoNotFound == NotFound(MH1) \o <<10>> \o NotFound(MH2)

SqliteResponses ==
    { SqliteResponse(TRUE, EmptyDict), SqliteResponse(FALSE, EmptyDict),
      SqliteResponse(FALSE, [errorCode |-> NotFound(MH1)]),
      SqliteResponse(FALSE, [errorCode |-> TwoNotFound]), DuplicateDocument }

\* lines 436-470: delete_order_thread, the row of the task and the product
\* code of the request are deleted
DeletedOrder(table, codes, task_id) ==
    [orders |-> [table EXCEPT ![task_id] = NoValue],
     code_rows |-> codes \ {RequestCode(task_id)}]

\* lines 393-433: handle_order_database_operation, the row of the task is
\* inserted with status "needs_retry", or updated
\* lines 295-297 and 374-376: response_data.get("errorCode", response.error)
ErrorLogged(response) ==
    DictGet(response.response_data, "errorCode", response.error)

LoggedOrder(table, task_id, response) ==
    [table EXCEPT ![task_id] = [status |-> "needs_retry",
                                error_code |-> ErrorLogged(response)]]

\* lines 164-210: update_daily_stats_thread
UpdatedStats(stats, task_completed, task_failed) ==
    [completed_tasks |-> stats.completed_tasks + (IF task_completed THEN 1 ELSE 0),
     failed_tasks |-> stats.failed_tasks + (IF task_failed THEN 1 ELSE 0)]

\* lines 570-571 and 588-591: the response is a success, or the document
\* was entered already; nothing is written yet, and the handler awaits the
\* deletion of the order
CompletedOrder(response) ==
    [at |-> "delete_successful_order", response |-> response, matches |-> <<>>]

\* lines 580-610: the attempt failed; matches are the codes the errorCode
\* names (line 608), none when there is no errorCode, and the handler is
\* about to insert the first of them, or awaits log_failed_order when there
\* is none
FailedOrder(response) ==
    LET matches == IF HasErrorCode(response)
                   THEN FindAll(response.response_data.errorCode)
                   ELSE <<>>
    IN  [at |-> IF matches = <<>> THEN "log_failed_order"
                ELSE "insert_non_existing_code",
         response |-> response,
         matches |-> matches]

\* lines 582-589: the errorCode says that the document was entered already
Duplicate(response) ==
    HasErrorCode(response) /\ DuplicateFound(response.response_data.errorCode)

\* lines 567-610 of execute_request of main-sqlite.py, from the response to
\* the next await or to the first query under sqlite_lock: where the handler
\* is, and the codes it has still to insert
sqlite_execute_request(response) ==
    IF response.success \/ Duplicate(response)
    THEN CompletedOrder(response)
    ELSE FailedOrder(response)

\* line 811: the invocation submit_batch sends to send_single_email, 5
\* minutes late
SqliteEmailInvocation ==
    [handler |-> "send_single_email", key |-> "", send_delay |-> 300,
     sent_by |-> "submit_batch"]

\* the variables the handlers of main-sqlite.py leave alone
rest_of_sqlite == <<frame_vars, call_vars, find_vars, match_vars, kv_detail, kv_status>>

SqliteInit ==
    /\ pc = "sqlite_serving"
    /\ orders = [k \in Keys |-> NoValue]
    /\ code_rows = {}
    /\ daily_task_stats = [completed_tasks |-> 0, failed_tasks |-> 0]
    /\ kv_detail = None
    /\ kv_status = None
    /\ in_flight = [k \in Keys |-> NoValue]
    /\ non_existing_codes = <<>>
    /\ email_scheduler_active = FALSE
    /\ first_submit_time = None
    /\ invocations = EmptyBag
    /\ emailed = {}
    /\ calls = 0
    /\ ProcessIdle
    /\ DistanceIdle
    /\ FindIdle
    /\ MatchIdle

\* execute_request run for a call of submit_batch, up to the HTTP request
\* (lines 507-565): the handler awaits the response
SqliteExecuteRequest(inv) ==
    /\ pc = "sqlite_serving"
    /\ BagIn(inv, invocations)
    /\ inv.handler = "execute_request"
    /\ KeyFree(inv.key)
    /\ invocations' = invocations (-) SetToBag({inv})
    /\ in_flight' = [in_flight EXCEPT ![inv.key] = [at |-> "http_request"]]
    /\ UNCHANGED <<pc, non_existing_codes, email_scheduler_active, first_submit_time,
                   emailed, calls, sqlite_vars>>
    /\ UNCHANGED rest_of_sqlite

\* the HTTP request of the handler of the task returns this response, and
\* execute_request runs up to its next await, the one of line 571, 591 or
\* 629, or up to the first insert of line 611, which waits for sqlite_lock:
\* lines 563-610
SqliteHttpResponded(task_id, response) ==
    /\ pc = "sqlite_serving"
    /\ ~KeyFree(task_id)
    /\ in_flight[task_id].at = "http_request"
    /\ in_flight' = [in_flight EXCEPT ![task_id] = sqlite_execute_request(response)]
    /\ UNCHANGED <<pc, non_existing_codes, email_scheduler_active, first_submit_time,
                   invocations, emailed, calls, sqlite_vars>>
    /\ UNCHANGED rest_of_sqlite

\* lines 611-613: query_from_thread(insert_non_existing_code_thread) takes
\* sqlite_lock, inserts the first of the codes left (INSERT OR IGNORE, lines
\* 213-245) and releases the lock
SqliteCodeInserted(task_id) ==
    /\ pc = "sqlite_serving"
    /\ ~KeyFree(task_id)
    /\ in_flight[task_id].at = "insert_non_existing_code"
    /\ code_rows' = code_rows \cup {Head(in_flight[task_id].matches)}
    /\ in_flight' = [in_flight EXCEPT ![task_id].at = "append_code"]
    /\ UNCHANGED <<pc, orders, daily_task_stats, non_existing_codes,
                   email_scheduler_active, first_submit_time, invocations, emailed,
                   calls>>
    /\ UNCHANGED rest_of_sqlite

\* lines 614-615: the code just inserted is appended to the list when it is
\* not in it, and the loop goes on to the next code, or to the await of
\* log_failed_order after the last (lines 618-629)
SqliteCodeListed(task_id) ==
    /\ pc = "sqlite_serving"
    /\ ~KeyFree(task_id)
    /\ in_flight[task_id].at = "append_code"
    /\ non_existing_codes' =
           IF Head(in_flight[task_id].matches) \in Range(non_existing_codes)
           THEN non_existing_codes
           ELSE Append(non_existing_codes, Head(in_flight[task_id].matches))
    /\ in_flight' = [in_flight EXCEPT
                         ![task_id].matches = Tail(in_flight[task_id].matches),
                         ![task_id].at = IF Tail(in_flight[task_id].matches) = <<>>
                                         THEN "log_failed_order"
                                         ELSE "insert_non_existing_code"]
    /\ UNCHANGED <<pc, email_scheduler_active, first_submit_time, invocations,
                   emailed, calls, sqlite_vars>>
    /\ UNCHANGED rest_of_sqlite

\* delete_successful_order_from_db has run (lines 491-504, awaited at line
\* 571 or 591): the order is deleted, and the handler awaits the update of
\* the statistics
SqliteOrderDeleted(task_id) ==
    /\ pc = "sqlite_serving"
    /\ ~KeyFree(task_id)
    /\ in_flight[task_id].at = "delete_successful_order"
    /\ orders' = DeletedOrder(orders, code_rows, task_id).orders
    /\ code_rows' = DeletedOrder(orders, code_rows, task_id).code_rows
    /\ in_flight' = [in_flight EXCEPT
                         ![task_id] = [at |-> "update_daily_stats_completed"]]
    /\ UNCHANGED <<pc, daily_task_stats, non_existing_codes, email_scheduler_active,
                   first_submit_time, invocations, emailed, calls>>
    /\ UNCHANGED rest_of_sqlite

\* log_failed_order_to_db has run (lines 473-488, awaited at line 629): the
\* order is logged with the response, and the handler awaits the update of
\* the statistics
SqliteOrderLogged(task_id) ==
    /\ pc = "sqlite_serving"
    /\ ~KeyFree(task_id)
    /\ in_flight[task_id].at = "log_failed_order"
    /\ orders' = LoggedOrder(orders, task_id, in_flight[task_id].response)
    /\ in_flight' = [in_flight EXCEPT
                         ![task_id] = [at |-> "update_daily_stats_failed"]]
    /\ UNCHANGED <<pc, code_rows, daily_task_stats, non_existing_codes,
                   email_scheduler_active, first_submit_time, invocations, emailed,
                   calls>>
    /\ UNCHANGED rest_of_sqlite

\* the statistics of the day are updated and execute_request returns: lines
\* 573-577, 592-604 and 632-637
SqliteStatsUpdated(task_id) ==
    /\ pc = "sqlite_serving"
    /\ ~KeyFree(task_id)
    /\ in_flight[task_id].at \in {"update_daily_stats_completed",
                                  "update_daily_stats_failed"}
    /\ daily_task_stats' =
           UpdatedStats(daily_task_stats,
                        in_flight[task_id].at = "update_daily_stats_completed",
                        in_flight[task_id].at = "update_daily_stats_failed")
    /\ in_flight' = [in_flight EXCEPT ![task_id] = NoValue]
    /\ UNCHANGED <<pc, orders, code_rows, non_existing_codes, email_scheduler_active,
                   first_submit_time, invocations, emailed, calls>>
    /\ UNCHANGED rest_of_sqlite

\* line 811: the email invocation, sent when the flag is not set
SqliteSentEmail(active) ==
    IF active THEN EmptyBag ELSE SetToBag({SqliteEmailInvocation})

\* submit_batch called with the requests of these task ids: lines 797-875
SqliteSubmitBatch(requests) ==
    /\ pc = "sqlite_serving"
    /\ calls < MaxCalls
    /\ first_submit_time' = IF email_scheduler_active THEN first_submit_time
                            ELSE <<"time">>
    /\ email_scheduler_active' = TRUE
    /\ invocations' = invocations (+) SqliteSentEmail(email_scheduler_active)
                                  (+) SentTasks(requests, 1)
    /\ calls' = calls + 1
    /\ UNCHANGED <<pc, in_flight, non_existing_codes, emailed, sqlite_vars>>
    /\ UNCHANGED rest_of_sqlite

\* send_single_email run, the email being sent when there are codes: lines
\* 878-900
SqliteSendSingleEmail(inv) ==
    /\ pc = "sqlite_serving"
    /\ BagIn(inv, invocations)
    /\ inv.handler = "send_single_email"
    /\ invocations' = invocations (-) SetToBag({inv})
    /\ emailed' = emailed \cup Range(non_existing_codes)
    /\ non_existing_codes' = <<>>
    /\ email_scheduler_active' = FALSE
    /\ UNCHANGED <<pc, in_flight, first_submit_time, calls, sqlite_vars>>
    /\ UNCHANGED rest_of_sqlite

\* send_single_email run while sending fails: the exception is caught (lines
\* 786-794) and the list is cleared all the same (line 889)
SqliteSendSingleEmailFails(inv) ==
    /\ pc = "sqlite_serving"
    /\ BagIn(inv, invocations)
    /\ inv.handler = "send_single_email"
    /\ non_existing_codes # <<>>
    /\ invocations' = invocations (-) SetToBag({inv})
    /\ non_existing_codes' = <<>>
    /\ email_scheduler_active' = FALSE
    /\ UNCHANGED <<pc, in_flight, first_submit_time, emailed, calls, sqlite_vars>>
    /\ UNCHANGED rest_of_sqlite

\* stop_email_scheduler called: lines 903-911
SqliteStopEmailScheduler ==
    /\ pc = "sqlite_serving"
    /\ calls < MaxCalls
    /\ email_scheduler_active' = FALSE
    /\ first_submit_time' = None
    /\ calls' = calls + 1
    /\ UNCHANGED <<pc, in_flight, non_existing_codes, invocations, emailed, sqlite_vars>>
    /\ UNCHANGED rest_of_sqlite

SqliteNext ==
    \/ \E requests \in Batches : SqliteSubmitBatch(requests)
    \/ \E inv \in BagToSet(invocations) : SqliteExecuteRequest(inv)
    \/ \E task_id \in Keys, response \in SqliteResponses :
           SqliteHttpResponded(task_id, response)
    \/ \E task_id \in Keys : SqliteCodeInserted(task_id)
    \/ \E task_id \in Keys : SqliteCodeListed(task_id)
    \/ \E task_id \in Keys : SqliteOrderDeleted(task_id)
    \/ \E task_id \in Keys : SqliteOrderLogged(task_id)
    \/ \E task_id \in Keys : SqliteStatsUpdated(task_id)
    \/ \E inv \in BagToSet(invocations) : SqliteSendSingleEmail(inv)
    \/ \E inv \in BagToSet(invocations) : SqliteSendSingleEmailFails(inv)
    \/ SqliteStopEmailScheduler

SqliteSpec == SqliteInit /\ [][SqliteNext]_vars

-----------------------------------------------------------------------------
(* process_to_buffer as a function of the two frames it loaded              *)

\* after phase 3: p1 the frame after phase 1, p2 and p3 the loops at their end
ReconcileEnd(df, p1, p2, p3) ==
    [output |-> ApplyMapping(p3.df),
     statistics |-> Statistics(Len(df.rows), ExactCount(p1), p2.count, p3.count)]

\* phase 3 after phase 2
ReconcilePhase3(mdf, cmap, df, cm, nm, p1, p2) ==
    ReconcileEnd(df, p1, p2,
        Phase3Loop([df |-> p2.df, count |-> 0, hits |-> {}], UnmatchedIndices(p2.df), 1,
                   cm, nm, mdf, cmap.new_code, cmap.old_code))

\* phase 2 after phase 1
ReconcilePhase2(mdf, cmap, df, cm, nm, p1) ==
    ReconcilePhase3(mdf, cmap, df, cm, nm, p1,
        Phase2Loop([df |-> p1, count |-> 0, hits |-> {}], UnmatchedIndices(p1), 1, cm, nm,
                   ReverseMapping(mdf, cmap.new_code, cmap.old_code, 1, EmptyDict)))

\* phase 1 with the two dictionaries
ReconcileWith(mdf, cmap, df, cm, nm) ==
    ReconcilePhase2(mdf, cmap, df, cm, nm, Phase1Frame(df, cm, nm))

\* lines 287-417: the table written and the statistics returned
Reconcile(mdf, cmap, df) ==
    ReconcileWith(mdf, cmap, df,
        DictZip(Column(mdf, cmap.old_code), Column(mdf, cmap.new_code), 1, EmptyDict),
        DictZip(Column(mdf, cmap.old_code), Column(mdf, cmap.new_name), 1, EmptyDict))

-----------------------------------------------------------------------------
(* Properties                                                               *)

Finished == pc = "done"

Records == DOMAIN input_df.rows

\* the code and the name of record r before and after reconciliation
InCode(r) == Column(input_df, MaHang)[r]
OutCode(r) == Column(output_buffer, MaHang)[r]
InName(r) == Column(input_df, TenHang)[r]
OutName(r) == Column(output_buffer, TenHang)[r]

\* the new codes and the old codes of the mapping table, by row
NewCodes == Column(mapping_df, column_mapping.new_code)
OldCodes == Column(mapping_df, column_mapping.old_code)

\* the rows phase 2 and phase 3 examined
Examined2 == Range(unmatched_indices)
Examined3 == Range(still_unmatched_indices)

\* some candidate row of the code reaches the threshold
ReachesThreshold(code) ==
    \E k \in DOMAIN ValidMapping(code, NewCodes, ValidRows(NewCodes)) :
        SimGe(Similarity(code,
                         NewCodes[ValidMapping(code, NewCodes, ValidRows(NewCodes))[k]]),
              Threshold)

\* C1: the statistics returned satisfy matched_count = exact + reverse +
\* fuzzy and matched_count <= total_count, total_count being the number of
\* data rows, whatever the mapping table (rows with an empty new code
\* included).
C1_CountsWithinTotal ==
    Finished =>
        /\ result.matched_count = result.exact_matched_count
                                  + result.reverse_matched_count
                                  + result.fuzzy_matched_count
        /\ result.total_count = Len(input_df.rows)
        /\ result.matched_count <= result.total_count

\* C2: after reconciliation no record is counted in two of the three
\* matched buckets, a record counted by phase 1 is examined neither by
\* phase 2 nor by phase 3, and a record counted by phase 2 is not examined
\* by phase 3.
C2_OneStatePerRecord ==
    Finished =>
        /\ exact_hits \cap reverse_hits = {}
        /\ exact_hits \cap fuzzy_hits = {}
        /\ reverse_hits \cap fuzzy_hits = {}
        /\ exact_hits \cap (Examined2 \cup Examined3) = {}
        /\ reverse_hits \cap Examined3 = {}

\* C3: a record whose code is a key of code_mapping with a non-empty new
\* code gets that new code, gets name_mapping[code] as its name when the
\* sheet has a name column and that name is not empty, and is counted as an
\* exact match; a key whose new code is empty is not an exact match.
C3_ExactForward ==
    Finished =>
        \A r \in Records :
            InCode(r) \in DOMAIN code_mapping =>
                IF code_mapping[InCode(r)] # Empty
                THEN /\ OutCode(r) = code_mapping[InCode(r)]
                     /\ (HasColumn(input_df, TenHang) /\ name_mapping[InCode(r)] # Empty)
                            => OutName(r) = name_mapping[InCode(r)]
                     /\ r \in exact_hits
                ELSE r \notin exact_hits

\* C4: a record that phase 1 left unmatched and whose code is the new code
\* of some mapping row is counted as a reverse match and keeps its code,
\* for every mapping table (repeated old codes and new codes included).
C4_ReverseKeepsCode ==
    Finished =>
        \A r \in Records :
            (/\ r \in Examined2
             /\ NotNa(InCode(r))
             /\ \E m \in DOMAIN NewCodes : NewCodes[m] = InCode(r))
            => (r \in reverse_hits /\ OutCode(r) = InCode(r))

\* C5: a record entering phase 3 with a non-empty code is fuzzy-matched if
\* and only if the highest similarity over its candidate rows is at least
\* 0.70.
C5_FuzzyIffThreshold ==
    Finished =>
        \A r \in Examined3 :
            (NotNa(InCode(r)) /\ InCode(r) # Empty)
            => (r \in fuzzy_hits <=> ReachesThreshold(InCode(r)))

\* the data sheet of the third scenario of the specification: the mapping
\* row (SP001, SP100, "Mới A") alone and the data code SP0O1
ScenarioC ==
    /\ mapping_df.rows = << <<SP001, CuA, SP100, MoiA>> >>
    /\ Column(input_df, MaHang) = <<SP0O1>>

\* C6, as claimed: in scenario C the edit distance from SP0O1 to SP100 is 1
\* (similarity 0.8), and the record is fuzzy-matched: output code SP100,
\* counted as a fuzzy match.
C6_ScenarioC_AsClaimed ==
    (Finished /\ ScenarioC) =>
        /\ levenshtein_distance(SP0O1, SP100) = 1
        /\ SimGe(Similarity(SP0O1, SP100), Threshold)
        /\ result.exact_matched_count = 0
        /\ result.reverse_matched_count = 0
        /\ result.fuzzy_matched_count = 1
        /\ OutCode(1) = SP100

\* C6, amended: in scenario C the record has no exact and no reverse match,
\* the edit distance from SP0O1 to SP100 is 3 (similarity 0.4, below 0.70),
\* and the record is matched by no phase: its code stays SP0O1, its name is
\* unchanged and it is counted in none of the three buckets.
C6_ScenarioC_Unmatched ==
    (Finished /\ ScenarioC) =>
        /\ levenshtein_distance(SP0O1, SP100) = 3
        /\ Similarity(SP0O1, SP100) = [num |-> 2, den |-> 5]
        /\ ~SimGe(Similarity(SP0O1, SP100), Threshold)
        /\ result.exact_matched_count = 0
        /\ result.reverse_matched_count = 0
        /\ result.fuzzy_matched_count = 0
        /\ result.matched_count = 0
        /\ OutCode(1) = SP0O1
        /\ HasColumn(input_df, TenHang) => OutName(1) = InName(1)

\* C6, witness: a run on scenario C has finished
C6_Witness == Finished /\ ScenarioC /\ HasColumn(input_df, TenHang)

\* C7: a record matched by no phase (no non-empty code_mapping entry for its
\* code, its code no key of the reverse index, no fuzzy candidate reaching
\* 0.70) keeps its code and its name and is counted in no bucket.
C7_UnmatchedUnchanged ==
    Finished =>
        \A r \in Records :
            (/\ ~(InCode(r) \in DOMAIN code_mapping /\ code_mapping[InCode(r)] # Empty)
             /\ InCode(r) \notin DOMAIN reverse_code_mapping
             /\ (IsNa(InCode(r)) \/ ~ReachesThreshold(InCode(r))))
            => /\ OutCode(r) = InCode(r)
               /\ HasColumn(input_df, TenHang) => OutName(r) = InName(r)
               /\ r \notin exact_hits \cup reverse_hits \cup fuzzy_hits

\* _identify_mapping_columns has raised its missing-columns error
MappingError ==
    pc = "raised" /\ error.in = "_identify_mapping_columns" /\ error.type = "ValueError"

\* _load_data_file has raised
DataError == pc = "raised" /\ error.in = "_load_data_file"

\* _load_data_file has returned a frame
DataLoaded == pc \in {"data_loaded", "phase1", "phase2", "phase3", "apply", "write", "done"}

\* C9: the resolution of the mapping columns fails only when a logical
\* column is unresolved and the sheet has fewer than 4 columns; with 4
\* columns or more the first four are used and no error is raised.
C9_PositionalFallback ==
    MappingError => (error.missing # <<>> /\ Len(error.columns) < 4)

\* a product-code column can be resolved: a header is "Mã hàng", or a
\* pattern of the code family matches a normalized header or is a substring
\* of a header
CodeResolvable(columns) ==
    \/ MaHang \in Range(columns)
    \/ \E i \in DOMAIN columns, p \in DOMAIN data_code_patterns :
        /\ IsText(columns[i])
        /\ \/ ReSearch(Lower(data_code_patterns[p]), normalize_column_name(columns[i]))
           \/ Contains(Lower(columns[i]), Lower(data_code_patterns[p]))

\* the cells of the output outside the code column are those of the input
OnlyCodesRewritten ==
    /\ output_buffer.columns = input_df.columns
    /\ DOMAIN output_buffer.rows = DOMAIN input_df.rows
    /\ \A r \in Records : \A c \in DOMAIN input_df.columns :
        c # ColPos(input_df, MaHang) => output_buffer.rows[r][c] = input_df.rows[r][c]

\* the data sheet as loaded, with a name column added
WithNames == WithColumn(input_df, TenHang, [r \in Records |-> CuA])

\* the state part of C10
DataSheetLoaded ==
    /\ DataError => ~CodeResolvable(data_columns)
    /\ pc = "data_loaded" => CodeResolvable(data_columns)
    /\ (Finished /\ ~HasColumn(input_df, TenHang)) =>
        /\ OnlyCodesRewritten
        /\ result = Reconcile(mapping_df, column_mapping, WithNames).statistics

\* a step taken on a sheet without a name column moves on and raises nothing
ProceedsWithoutNames ==
    (DataLoaded /\ ~HasColumn(input_df, TenHang)) => (pc' # pc /\ pc' # "raised")

\* C10: loading the data sheet fails if and only if no product-code column
\* can be resolved; when only the name column cannot be resolved, loading
\* succeeds, every later step of reconciliation proceeds without raising,
\* only code values are rewritten and the statistics are those of the same
\* sheet with a name column.
C10_DataSheetLoading == []DataSheetLoaded /\ [][ProceedsWithoutNames]_vars

\* C11: there is no partial output. When process_to_buffer has raised, the
\* exception is the caller's, nothing was written to the output buffer and
\* no statistics were returned; the buffer is written and the statistics
\* returned only at the end of a run that raised nothing, and they are the
\* table and the statistics of the three phases run over every record.
C11_NoPartialOutput ==
    /\ pc = "raised" => (~Unset(error) /\ Unset(output_buffer) /\ Unset(result))
    /\ ~Finished => (Unset(output_buffer) /\ Unset(result))
    /\ Finished =>
        /\ Unset(error)
        /\ [output |-> output_buffer, statistics |-> result]
             = Reconcile(mapping_df, column_mapping, input_df)

\* C11, witness: the data sheet could not be loaded after the mapping sheet
\* was: the ValueError of the missing code column has been raised
C11_Witness ==
    pc = "raised" /\ error.in = "_load_data_file" /\ error.type = "ValueError"

\* the columns whose values reconciliation may replace
RewrittenColumns == {MaHang, TenHang}

\* C12: reconciliation changes nothing but code and name values. The output
\* table has the rows of the loaded data table, as many and in the same
\* order, and its columns in the same order; every cell outside the code
\* column and the name column is the cell that was loaded; the two helper
\* columns "Mã hàng_mới" and "Tên hàng_mới" are not in the output.
C12_OnlyCodesAndNames ==
    Finished =>
        /\ output_buffer.columns = input_df.columns
        /\ Len(output_buffer.rows) = Len(input_df.rows)
        /\ \A r \in Records : \A c \in DOMAIN input_df.columns :
            input_df.columns[c] \notin RewrittenColumns
                => output_buffer.rows[r][c] = input_df.rows[r][c]
        /\ \A r \in Records : Len(output_buffer.rows[r]) = Len(input_df.rows[r])
        /\ MaHangMoi \notin Range(output_buffer.columns)
        /\ TenHangMoi \notin Range(output_buffer.columns)

\* the call of _levenshtein_distance has returned
DistanceReturned == pc \in {"distance_returned", "similarity_computed"}

\* C13: for all strings a and b of at most MaxLen characters over the
\* alphabet, distance(a, b) = distance(b, a), distance(a, a) = 0 and
\* distance("", b) = distance(b, "") = len(b).
C13_DistanceSymmetric ==
    DistanceReturned =>
        /\ lev_distance = levenshtein_distance(lev_str2, lev_str1)
        /\ lev_str1 = lev_str2 => lev_distance = 0
        /\ lev_str1 = Empty => lev_distance = Len(lev_str2)
        /\ lev_str2 = Empty => lev_distance = Len(lev_str1)

\* C13, witness: the distance of two different non-empty strings of
\* different lengths has been computed
C13_Witness ==
    /\ DistanceReturned
    /\ lev_str1 # Empty /\ lev_str2 # Empty
    /\ Len(lev_str1) < Len(lev_str2)
    /\ lev_distance > 0

\* max(len(code), len(new_code)) of the call
MaxLenOfCall == Max2(Len(lev_str1), Len(lev_str2))

\* C14: for strings a, b not both empty, 0 <= distance(a, b) <=
\* max(len(a), len(b)), so that similarity(a, b) = 1 - distance/max_len is
\* in [0, 1]; similarity(a, a) = 1 for a non-empty a; the similarity of two
\* empty strings is 0.
C14_SimilarityInUnitInterval ==
    /\ (DistanceReturned /\ MaxLenOfCall > 0) =>
        (0 <= lev_distance /\ lev_distance <= MaxLenOfCall)
    /\ (pc = "similarity_computed" /\ MaxLenOfCall > 0) =>
        /\ lev_similarity.den > 0
        /\ lev_similarity.num * MaxLenOfCall
             = (MaxLenOfCall - lev_distance) * lev_similarity.den
        /\ 0 <= lev_similarity.num /\ lev_similarity.num <= lev_similarity.den
        /\ (lev_str1 = lev_str2) => lev_similarity.num = lev_similarity.den
    /\ (pc = "similarity_computed" /\ MaxLenOfCall = 0) =>
        (lev_similarity.den > 0 /\ lev_similarity.num = 0)

\* C14, witness: a similarity strictly between 0 and 1 has been computed
C14_Witness ==
    /\ pc = "similarity_computed"
    /\ 0 < lev_similarity.num
    /\ lev_similarity.num < lev_similarity.den

\* the header a family of patterns finds in the first loop of
\* _find_column_by_pattern, the one over the normalized headers, or None
ByNormalizedHeader(columns, patterns) ==
    SearchNormalized(NormalizedColumns(columns, 1, <<>>), patterns, 1)

\* C15: a mapping sheet whose headers are exactly "Mã gốc", "Tên gốc",
\* "Mã mới", "Tên mới" resolves old_code, old_name, new_code and new_name to
\* these four headers in this order, each by a pattern matching the
\* normalized header, each to a different header; it is loaded without
\* raising and without the positional fallback.
C15_VietnameseHeaders ==
    /\ (pc = "raised" /\ error.in = "_identify_mapping_columns")
            => error.columns # HeadersVi
    /\ (pc \notin {"start", "raised"} /\ mapping_df.columns = HeadersVi) =>
        /\ column_mapping = [old_code |-> HeadersVi[1], old_name |-> HeadersVi[2],
                             new_code |-> HeadersVi[3], new_name |-> HeadersVi[4]]
        /\ Cardinality({column_mapping.old_code, column_mapping.old_name,
                        column_mapping.new_code, column_mapping.new_name}) = 4
    /\ (pc = "mapping_loaded" /\ mapping_df.columns = HeadersVi) =>
        /\ ByNormalizedHeader(mapping_df.columns, old_code_patterns) = column_mapping.old_code
        /\ ByNormalizedHeader(mapping_df.columns, old_name_patterns) = column_mapping.old_name
        /\ ByNormalizedHeader(mapping_df.columns, new_code_patterns) = column_mapping.new_code
        /\ ByNormalizedHeader(mapping_df.columns, new_name_patterns) = column_mapping.new_name

\* C15, witness: a sheet with the four headers and a row has been loaded
C15_Witness ==
    /\ pc = "mapping_loaded"
    /\ mapping_df.columns = HeadersVi
    /\ mapping_df.rows # <<>>

\* the new names of the mapping table, by row
NewNames == Column(mapping_df, column_mapping.new_name)

\* the last position of a sequence that holds the value
LastRowWith(col, v) ==
    CHOOSE m \in DOMAIN col :
        col[m] = v /\ \A n \in DOMAIN col : col[n] = v => n <= m

\* the two dictionaries of lines 291-296 are built
DictionariesBuilt == pc \in {"phase1", "phase2", "phase3", "apply", "write", "done"}

\* the reverse index of lines 316-321 is built
ReverseIndexBuilt == pc \in {"phase3", "apply", "write", "done"}

\* C16: the lookup dictionaries are last-write-wins in the row order of the
\* mapping table: code_mapping and name_mapping hold, for each old_code,
\* the new_code and the new_name of the last row with that old_code; the
\* reverse index holds, for each non-empty new_code, the old_code of the
\* last row with that new_code; a row with an empty new_code adds no entry
\* to the reverse index.
C16_LastWriteWins ==
    /\ DictionariesBuilt =>
        /\ DOMAIN code_mapping = Range(OldCodes)
        /\ DOMAIN name_mapping = Range(OldCodes)
        /\ \A k \in Range(OldCodes) :
            /\ code_mapping[k] = NewCodes[LastRowWith(OldCodes, k)]
            /\ name_mapping[k] = NewNames[LastRowWith(OldCodes, k)]
    /\ ReverseIndexBuilt =>
        /\ DOMAIN reverse_code_mapping = Range(NewCodes) \ {Empty}
        /\ \A k \in DOMAIN reverse_code_mapping :
            reverse_code_mapping[k] = OldCodes[LastRowWith(NewCodes, k)]

\* C16, witness: the dictionaries are built from a table in which two rows
\* share an old_code and differ in their new_code, the first a non-empty one
C16_Witness ==
    /\ ReverseIndexBuilt
    /\ \E m, n \in DOMAIN OldCodes :
        /\ m < n
        /\ OldCodes[m] = OldCodes[n]
        /\ NewCodes[m] # NewCodes[n]
        /\ NewCodes[m] # Empty

\* what the four pattern searches return on a header row
FoundByPattern(columns) ==
    [old_code |-> find_column_by_pattern(columns, old_code_patterns),
     old_name |-> find_column_by_pattern(columns, old_name_patterns),
     new_code |-> find_column_by_pattern(columns, new_code_patterns),
     new_name |-> find_column_by_pattern(columns, new_name_patterns)]

\* a pattern search of the four returned no header
SomeUnresolved(found) ==
    \E l \in DOMAIN found : ~Truthy(found[l])

\* C17: the positional fallback of _identify_mapping_columns is never
\* taken. Whenever one of the four pattern searches returns no header the
\* missing-columns error is raised, with 4 columns or more as with fewer;
\* a column assignment is returned only when the four searches each
\* returned a header, and it is what they returned, never the first four
\* columns by position.
C17_FallbackUnreachable ==
    /\ MappingError =>
        /\ error.missing # <<>>
        /\ SomeUnresolved(FoundByPattern(error.columns))
    /\ pc = "mapping_loaded" =>
        /\ ~SomeUnresolved(FoundByPattern(mapping_df.columns))
        /\ column_mapping = FoundByPattern(mapping_df.columns)

\* C17, witness: the missing-columns error has been raised on a sheet of 4
\* columns or more
C17_Witness == MappingError /\ Len(error.columns) >= 4

\* the codes phase 3 passed to _find_closest_match: those of the rows it
\* examined that are neither missing nor empty
FuzzyCodes == {InCode(r) : r \in {x \in Examined3 : NotNa(InCode(x)) /\ InCode(x) # Empty}}

\* the rows of the mapping table with a non-empty new code
RowsWithNewCode == {m \in DOMAIN NewCodes : NotNa(NewCodes[m]) /\ NewCodes[m] # Empty}

\* the rows with a new code that begins with the first min(3, len(code))
\* characters of the code
RowsWithPrefix(code) ==
    {m \in RowsWithNewCode :
        /\ Len(NewCodes[m]) >= Min2(3, Len(code))
        /\ \A i \in 1..Min2(3, Len(code)) : NewCodes[m][i] = code[i]}

\* the candidate rows of the code, in the order the loop of lines 264-275
\* reads them
Candidates(code) == ValidMapping(code, NewCodes, ValidRows(NewCodes))

\* the candidate rows are those with the prefix, or every row with a new
\* code when no row has the prefix, in increasing row order
SelectedAs(candidates, with_prefix, with_new_code) ==
    /\ Range(candidates) = IF with_prefix # {} THEN with_prefix ELSE with_new_code
    /\ \A k \in DOMAIN candidates : NewCodes[candidates[k]] # Empty
    /\ \A k, l \in DOMAIN candidates : k < l => candidates[k] < candidates[l]

\* C18: for a non-empty code, the fuzzy candidates are exactly the mapping
\* rows with a non-empty new_code that starts with the first
\* min(3, len(code)) characters of the code; if and only if there is no such
\* row, they are all the rows with a non-empty new_code; a row with an empty
\* new_code is never a candidate. The candidates are read in row order.
C18_CandidateSelection ==
    Finished =>
        \A code \in FuzzyCodes :
            SelectedAs(Candidates(code), RowsWithPrefix(code), RowsWithNewCode)

\* C18, witness: a code of 2 characters was given the rows that start with
\* it as candidates, a row with a new code that does not start with it
\* left out
C18_Witness ==
    /\ Finished
    /\ SP \in FuzzyCodes
    /\ RowsWithPrefix(SP) # {}
    /\ RowsWithPrefix(SP) # RowsWithNewCode

\* the similarity of the code to the new code of each of the rows
Similarities(code, rows) == [m \in rows |-> Similarity(code, NewCodes[m])]

\* the rows whose similarity no other row exceeds
BestRows(sims) ==
    {m \in DOMAIN sims : \A n \in DOMAIN sims : SimGe(sims[m], sims[n])}

\* the first of the rows in the row order of the mapping table
FirstRow(rows) == CHOOSE m \in rows : \A n \in rows : m <= n

\* the old code and the similarity of the row when it reaches the threshold
MatchOfRow(sims, m) ==
    IF SimGe(sims[m], Threshold)
    THEN [match |-> OldCodes[m], similarity |-> sims[m]]
    ELSE NoMatch

\* the match of the first row of maximum similarity
FirstMaximum(sims) ==
    IF DOMAIN sims = {} THEN NoMatch
    ELSE MatchOfRow(sims, FirstRow(BestRows(sims)))

\* what _find_closest_match returns for the code
ClosestMatch(code) ==
    find_closest_match(code, mapping_df, column_mapping.new_code,
                       column_mapping.old_code, Threshold)

\* C19: when several candidate rows reach the same maximum similarity for a
\* code, the first of them in the row order of the mapping table supplies
\* the resolution key: if the maximum reaches the threshold,
\* _find_closest_match returns the old_code of that first row with that
\* similarity, a later row with an equal similarity never replacing it;
\* otherwise it returns no match.
C19_FirstMaximumWins ==
    Finished =>
        \A code \in FuzzyCodes :
            ClosestMatch(code) =
                FirstMaximum(Similarities(code, Range(Candidates(code))))

\* two of the rows have different old codes
TwoOldCodes(rows) == \E m, n \in rows : OldCodes[m] # OldCodes[n]

\* the maximum similarity reaches the threshold and is that of two rows
\* with different old codes
TieAtMaximum(sims) ==
    /\ DOMAIN sims # {}
    /\ SimGe(sims[FirstRow(BestRows(sims))], Threshold)
    /\ TwoOldCodes(BestRows(sims))

\* C19, witness: two candidate rows with different old codes had the same
\* similarity to a code, the maximum, at the threshold or above
C19_Witness ==
    /\ Finished
    /\ \E code \in FuzzyCodes :
        TieAtMaximum(Similarities(code, Range(Candidates(code))))

\* the reference recurrence of the Levenshtein distance: deleting the first
\* character of a, inserting the first character of b, or substituting one
\* for the other, each at cost 1, a match costing nothing
RECURSIVE ClassicLevenshtein(_, _)
ClassicLevenshtein(a, b) ==
    IF a = <<>> THEN Len(b)
    ELSE IF b = <<>> THEN Len(a)
    ELSE Min3(ClassicLevenshtein(Tail(a), b) + 1,
              ClassicLevenshtein(a, Tail(b)) + 1,
              ClassicLevenshtein(Tail(a), Tail(b))
                  + (IF Head(a) = Head(b) THEN 0 ELSE 1))

\* C20: the fallback implementation of _levenshtein_distance returns, for
\* every pair of strings of at most MaxLen characters of the alphabet, the
\* distance of the reference recurrence, an empty string included.
C20_ClassicDistance ==
    DistanceReturned =>
        lev_distance = ClassicLevenshtein(lev_str1, lev_str2)

\* C20, witness: the distance of two non-empty strings of different lengths
\* was returned, more than the difference of the lengths and less than the
\* greater length
C20_Witness ==
    /\ DistanceReturned
    /\ lev_str1 # Empty /\ lev_str2 # Empty
    /\ Len(lev_str1) < Len(lev_str2)
    /\ lev_distance > Len(lev_str2) - Len(lev_str1)
    /\ lev_distance < Len(lev_str2)

\* the code of the record is empty or missing
BlankCode(r) == IsNa(InCode(r)) \/ InCode(r) = Empty

\* C21: a data record whose code is empty or missing is skipped by phase 2
\* and by phase 3: it is counted neither as a reverse match nor as a fuzzy
\* match, whatever the mapping table holds, and the output carries its code
\* unchanged.
C21_BlankCodeSkipped ==
    Finished =>
        \A r \in Records :
            BlankCode(r) =>
                /\ r \notin reverse_hits
                /\ r \notin fuzzy_hits
                /\ OutCode(r) = InCode(r)

\* C21, witness: a record without a code went through phase 2 and phase 3
\* against a mapping table with a row without an old code and a row without
\* a new code
C21_Witness ==
    /\ Finished
    /\ \E r \in Records : BlankCode(r) /\ r \in Examined2 /\ r \in Examined3
    /\ \E m \in DOMAIN OldCodes : OldCodes[m] = Empty /\ NewCodes[m] # Empty
    /\ \E m \in DOMAIN NewCodes : NewCodes[m] = Empty

\* the call of _find_column_by_pattern returned
FindReturned == pc = "find_returned"

\* the pattern, as a regular expression, is found in the normalized header
NormMatch(pattern, header) ==
    ReSearch(Lower(pattern), normalize_column_name(header))

\* the header holds the text of the pattern, case ignored
RawMatch(pattern, header) == Contains(Lower(header), Lower(pattern))

\* the least number of a non-empty set of numbers
Least(S) == CHOOSE n \in S : \A m \in S : n <= m

\* the patterns that match some normalized header, by position in the family
NormPatterns(columns, patterns) ==
    {p \in DOMAIN patterns : \E i \in DOMAIN columns : NormMatch(patterns[p], columns[i])}

\* the patterns some header holds as text, by position in the family
RawPatterns(columns, patterns) ==
    {p \in DOMAIN patterns : \E i \in DOMAIN columns : RawMatch(patterns[p], columns[i])}

\* the headers that hold the text of some pattern, by position in the row
RawHeaders(columns, patterns) ==
    {i \in DOMAIN columns : \E p \in DOMAIN patterns : RawMatch(patterns[p], columns[i])}

\* the headers that hold the text of the pattern, by position in the row
HeadersHolding(columns, pattern) ==
    {i \in DOMAIN columns : RawMatch(pattern, columns[i])}

\* the result is a header the earliest matching pattern matches
ByEarliestPattern(columns, patterns, by_norm, found) ==
    /\ found \in Range(columns)
    /\ NormMatch(patterns[Least(by_norm)], found)

\* C22 as stated: the result is a header matched by the earliest pattern
\* that matches any normalized header; when no pattern matches a normalized
\* header it is the first header, in the order of the row, that holds the
\* text of any pattern; it is None when neither step finds a header.
C22_FirstHeaderInFallback ==
    FindReturned =>
        IF NormPatterns(find_columns, find_patterns) # {}
        THEN ByEarliestPattern(find_columns, find_patterns,
                               NormPatterns(find_columns, find_patterns), find_result)
        ELSE IF RawHeaders(find_columns, find_patterns) # {}
        THEN find_result = find_columns[Least(RawHeaders(find_columns, find_patterns))]
        ELSE find_result = None

\* C22, amended: the result is a header matched by the earliest pattern that
\* matches any normalized header; when no pattern matches a normalized
\* header, the fallback goes by pattern priority as well: the result is the
\* first header that holds the text of the earliest pattern whose text any
\* header holds; it is None when neither step finds a header.
C22_PatternPriority ==
    FindReturned =>
        IF NormPatterns(find_columns, find_patterns) # {}
        THEN ByEarliestPattern(find_columns, find_patterns,
                               NormPatterns(find_columns, find_patterns), find_result)
        ELSE IF RawPatterns(find_columns, find_patterns) # {}
        THEN find_result =
                find_columns[Least(HeadersHolding(find_columns,
                    find_patterns[Least(RawPatterns(find_columns, find_patterns))]))]
        ELSE find_result = None

\* C22, witness: no pattern matched a normalized header, two headers held
\* the texts of patterns, and the call returned the second header, the one
\* holding the text of the earlier pattern
C22_Witness ==
    /\ FindReturned
    /\ NormPatterns(find_columns, find_patterns) = {}
    /\ RawHeaders(find_columns, find_patterns) = {1, 2}
    /\ find_result = find_columns[2]

\* the call of _find_closest_match returned
MatchReturned == pc = "match_returned"

\* the best of all the rows with a new code, accepted at the threshold:
\* the scoring of lines 258-280 without the prefix filter of lines 248-256
ScoreEveryRow(code, new_col, old_col) ==
    Accept(BestLoop(code, new_col, old_col, ValidRows(new_col), 1, NoMatch), Threshold)

\* C27 as stated: for every non-empty code and every mapping table, the
\* old code _find_closest_match returns with the prefix filter, or its
\* returning no match, is what scoring every row with a non-empty new_code
\* gives.
C27_PrefixFilterOnlyOptimization ==
    MatchReturned =>
        match_result.match =
            ScoreEveryRow(match_code, Column(match_df, HeadersVi[3]),
                          Column(match_df, HeadersVi[1])).match

\* the output table of the run, reconciled again with the same mapping table
SecondOutput == Reconcile(mapping_df, column_mapping, output_buffer).output

\* the code and the name columns of the two tables are the same
SameCodesAndNames(first, second) ==
    /\ Column(second, MaHang) = Column(first, MaHang)
    /\ HasColumn(first, TenHang) => Column(second, TenHang) = Column(first, TenHang)

\* C28 as stated: reconciling the output table of a completed run again
\* with the same mapping table changes no code and no name, for every
\* mapping table, one in which a value is the new_code of a row and the
\* old_code of another included.
C28_IdempotentOnOutput ==
    Finished => SameCodesAndNames(output_buffer, SecondOutput)

\* ---------------------------------------------------------------------------
\* The automatic retry of main.py
\* ---------------------------------------------------------------------------

\* the attempt of the task ends in this step: the handler that awaited the
\* response awaits it no more
AttemptEnds(task_id) ==
    /\ ~Absent(in_flight[task_id])
    /\ Absent(in_flight'[task_id])

\* the task's attempt failed in this step: it ends, and a TaskStatus stays
\* stored for the task
FailedAttempt(task_id) ==
    /\ AttemptEnds(task_id)
    /\ ~Absent(kv_detail'[task_id])

\* the delays of the first five failures, and of every later one
BackoffSeconds(n) ==
    IF n >= 6 THEN 300 ELSE <<10, 20, 40, 80, 160>>[n]

\* the retry sent for the task after its n-th failure
RetryAfter(task_id, n) ==
    ExecuteInvocation(task_id, BackoffSeconds(n), "execute_request")

\* the invocations a step adds
AddedInvocations ==
    { x \in BagToSet(invocations') : CopiesIn(x, invocations') > CopiesIn(x, invocations) }

\* C23: the automatic retry sent after a failed attempt is delayed by
\* min(300, 5 * 2^min(n, 6)) seconds, n being the retry_count stored after the
\* increment for this failure: 10, 20, 40, 80, 160 and then 300 seconds; the
\* delay does not decrease as the failures accumulate and is never more than
\* 300 seconds
C23_RetryDelay ==
    [][\A task_id \in Keys :
        /\ FailedAttempt(task_id) =>
             LET n == kv_detail'[task_id].retry_count
                 before == StoredRetryCount(task_id)
             IN /\ BagIn(RetryAfter(task_id, n), invocations')
                /\ BackoffSeconds(n) <= 300
                /\ before >= 1 => BackoffSeconds(before) <= BackoffSeconds(n)
        /\ \A x \in AddedInvocations :
             x.sent_by = "execute_request" /\ x.key = task_id =>
               /\ FailedAttempt(task_id)
               /\ x = RetryAfter(task_id, kv_detail'[task_id].retry_count)]_vars

\* a retry is pending for a task that failed more than six times, 300 seconds
\* after the failure
C23_Witness ==
    /\ pc = "serving"
    /\ \E task_id \in Keys :
        /\ ~Absent(kv_detail[task_id])
        /\ kv_detail[task_id].retry_count > 6
        /\ BagIn(ExecuteInvocation(task_id, 300, "execute_request"), invocations)

\* the number of invocations of execute_request pending for the task that
\* were sent by this handler
RECURSIVE CountOf(_, _)
CountOf(xs, bag) ==
    IF xs = {} THEN 0
    ELSE LET x == CHOOSE y \in xs : TRUE
         IN CopiesIn(x, bag) + CountOf(xs \ {x}, bag)

\* the automatic retries of the task among the invocations
RetriesOf(task_id, bag) ==
    { x \in BagToSet(bag) : /\ x.handler = "execute_request"
                            /\ x.key = task_id
                            /\ x.sent_by = "execute_request" }

PendingRetries(task_id, bag) == CountOf(RetriesOf(task_id, bag), bag)

\* what an attempt of execute_request leaves when the response needs retry
EndsAsNeedsRetry(task_id) ==
    /\ get_task_status(task_id)'.retry_count = StoredRetryCount(task_id) + 1
    /\ get_task_status(task_id)'.detail = "needs_retry"
    /\ PendingRetries(task_id, invocations') = PendingRetries(task_id, invocations) + 1
    /\ \E delay \in 1..300 :
         invocations' = invocations (+) SetToBag({ExecuteInvocation(task_id, delay,
                                                                   "execute_request")})

\* what it leaves when the response is a success
EndsAsSuccess(task_id) ==
    /\ Absent(get_task_status(task_id)')
    /\ get_status(task_id)' = None
    /\ invocations' = invocations

\* C24: every attempt of execute_request ends in one of two ways, decided by
\* the response the HTTP request returned: if the response needs retry, the
\* stored retry_count is one more than it was while the attempt ran, detail
\* is "needs_retry" and exactly one delayed invocation of execute_request for
\* the same key is sent; if the response is a success, nothing is sent and the
\* state of the task is cleared, get_task_status and get_status returning
\* nothing. An attempt ends only by a response that needs retry or is a
\* success
C24_AttemptEnds ==
    [][\A task_id \in Keys :
        AttemptEnds(task_id) =>
            /\ \E response \in Responses :
                  /\ HttpResponded(task_id, response)
                  /\ response.needs_manual_retry \/ response.success
            /\ \A response \in Responses :
                  HttpResponded(task_id, response) =>
                      IF response.needs_manual_retry
                      THEN EndsAsNeedsRetry(task_id)
                      ELSE EndsAsSuccess(task_id)]_vars

\* the one task submitted failed, its code was listed, and a later attempt
\* succeeded: nothing is stored or pending for it
C24_Witness ==
    /\ pc = "serving"
    /\ calls = 1
    /\ EscapedMH1 \in Range(non_existing_codes)
    /\ \A task_id \in Keys :
        /\ Absent(get_task_status(task_id))
        /\ get_status(task_id) = None
        /\ KeyFree(task_id)
    /\ \A x \in BagToSet(invocations) : x.handler # "execute_request"

\* ---------------------------------------------------------------------------
\* The email scheduled by submit_batch
\* ---------------------------------------------------------------------------

\* the number of invocations of send_single_email that are pending
PendingEmails == CopiesIn(EmailInvocation, invocations)

\* C26: at most one delayed invocation of send_single_email is pending at any
\* time, email_scheduler_active being false exactly when none is pending,
\* under every interleaving of submit_batch, send_single_email and
\* stop_email_scheduler
C26_OneEmailPending ==
    pc = "serving" =>
        /\ PendingEmails <= 1
        /\ email_scheduler_active = FALSE <=> PendingEmails = 0

\* C29: at most one delayed retry is pending for a task key at any time, so
\* that no retry sent before an attempt of the key succeeded sends the
\* request again, under every interleaving of execute_request, retry_task
\* and submit_batch calls naming the key
C29_OneRetryPending ==
    pc = "serving" =>
        \A task_id \in Keys : PendingRetries(task_id, invocations) <= 1

\* C30: every code appended to non_existing_codes is in the end in an email
\* that was sent, when the invocations sent run in the end and sending
\* succeeds, whether or not the email of the batch was sent before the code
\* was found and with no further call of submit_batch
C30_CodesEmailed ==
    \A code \in {EscapedMH1} :
        (code \in Range(non_existing_codes))
            ~> (code \notin Range(non_existing_codes) /\ code \in emailed)

\* ---------------------------------------------------------------------------
\* The failed orders of main-sqlite.py
\* ---------------------------------------------------------------------------

\* the last attempt of the task failed and was logged
LoggedAsFailed(task_id) == ~Absent(orders[task_id])

\* C25: an attempt of execute_request of main-sqlite.py whose response is a
\* failure needing retry is logged to the database and followed by a further
\* attempt for the same task with no new submission: while the order is
\* logged as failed and no attempt of the task is running, an invocation of
\* execute_request is pending for the task
C25_FailureRetried ==
    pc = "sqlite_serving" =>
        \A task_id \in Keys :
            (LoggedAsFailed(task_id) /\ KeyFree(task_id)) =>
                \E inv \in BagToSet(invocations) :
                    inv.handler = "execute_request" /\ inv.key = task_id

====
